---- MODULE Spec2Model ----
(***************************************************************************)
(* Model of telethon/monitor.py: the hot-reloadable rule set               *)
(* (load_config_sync), the per-message classifier and dispatcher           *)
(* (message_handler) and the side-effect tasks (save_log_async,            *)
(* notify_new_message_async, trigger_ai_analysis_async, send_alert_async). *)
(*                                                                         *)
(* Strings are tuples of one-character strings, so that lower(), strip(),  *)
(* split() and the substring test `k in text` are computed, not assumed.   *)
(* The empty tuple stands for every falsy Python value (None, '', [], {}). *)
(***************************************************************************)
EXTENDS Integers, Sequences, FiniteSets, TLC

\* ------------------------------------------------------------------------
\* Bounds of the model
\* ------------------------------------------------------------------------
MaxList == 2        \* longest keyword / pattern list drawn for the classifier
MaxText == 2        \* longest message text drawn for the classifier
MaxEvents == 1      \* events delivered in the dispatch and reload models
MaxBurst == 5       \* events of one burst in the concurrency-pool model
MaxSeq == 2       \* messages handled one after the other
MaxMtime == 2       \* modification tokens the rule source goes through
MaxMsgs == 3        \* messages of the identity-cache model
MaxArgv == 9        \* longest sys.argv given to the login helper
MaxClock == 4       \* ticks the clock of the identity-cache model advances

\* ------------------------------------------------------------------------
\* Strings
\* ------------------------------------------------------------------------
None == <<>>

LowerChar(c) == IF c = "A" THEN "a" ELSE IF c = "B" THEN "b" ELSE c

\* str.lower()
Lower(s) == [i \in 1..Len(s) |-> LowerChar(s[i])]

\* `k in t` for two strings
Contains(t, k) == \E i \in 0..(Len(t) - Len(k)) : SubSeq(t, i + 1, i + Len(k)) = k

\* the characters str.strip() removes
IsSpace(c) == c = " " \/ c = "\n"

RECURSIVE LStrip(_)
LStrip(s) == IF s # <<>> /\ IsSpace(Head(s)) THEN LStrip(Tail(s)) ELSE s

RECURSIVE RStrip(_)
RStrip(s) == IF s # <<>> /\ IsSpace(s[Len(s)]) THEN RStrip(SubSeq(s, 1, Len(s) - 1)) ELSE s

\* str.strip()
Strip(s) == RStrip(LStrip(s))

IsSep(c) == c = "," \/ c = "\n"

\* re.split(r"[\n,]", s)
RECURSIVE SplitSeps(_)
SplitSeps(s) ==
  IF \E i \in 1..Len(s) : IsSep(s[i])
  THEN LET i == CHOOSE j \in 1..Len(s) : IsSep(s[j]) /\ \A k \in 1..(j - 1) : ~IsSep(s[k])
       IN <<SubSeq(s, 1, i - 1)>> \o SplitSeps(SubSeq(s, i + 1, Len(s)))
  ELSE <<s>>

\* [f(x) for x in xs if f(x)] with f = strip
RECURSIVE StripNonEmpty(_)
StripNonEmpty(xs) ==
  IF xs = <<>> THEN <<>>
  ELSE LET s == Strip(Head(xs))
       IN (IF s # <<>> THEN <<s>> ELSE <<>>) \o StripNonEmpty(Tail(xs))

\* A JSON value of a list-typed field: a list of strings, one string, a
\* scalar (held as its str() text) or null.
JList(xs) == [type |-> "list", val |-> xs]
JStr(s) == [type |-> "str", val |-> <<s>>]
JScalar(s) == [type |-> "scalar", val |-> <<s>>]
JNull == [type |-> "null", val |-> <<>>]

normalize_list(values) ==
  CASE values.type = "null" -> <<>>
    [] values.type = "list" -> StripNonEmpty(values.val)
    [] values.type = "str" -> StripNonEmpty(SplitSeps(values.val[1]))
    [] OTHER -> StripNonEmpty(values.val)

SeqToSet(xs) == {xs[i] : i \in 1..Len(xs)}

\* ------------------------------------------------------------------------
\* Regular expressions: the patterns of the model are literals, and "(" is
\* an unbalanced group, which re.compile rejects with re.error.
\* ------------------------------------------------------------------------
CompileOk(p) == \A i \in 1..Len(p) : p[i] # "("

\* re.compile(p, re.IGNORECASE).search(text) for a literal p
Search(p, text) == Contains(Lower(text), Lower(p))

\* mutant: the compile loop ends at the first pattern re.compile rejects
CompilePatterns_StopAtBad(ps) ==
  LET bad == {i \in 1..Len(ps) : ~CompileOk(ps[i])}
  IN IF bad = {} THEN ps
     ELSE SubSeq(ps, 1, (CHOOSE i \in bad : \A j \in bad : i <= j) - 1)

\* the compile loop of load_config_sync: failing patterns are skipped
RECURSIVE CompilePatterns(_)
CompilePatterns(ps) ==
  IF ps = <<>> THEN <<>>
  ELSE (IF CompileOk(Head(ps)) THEN <<Head(ps)>> ELSE <<>>) \o CompilePatterns(Tail(ps))

\* [k.lower() for k in ks if k and str(k).strip()]
RECURSIVE LowerAll(_)
LowerAll(ks) ==
  IF ks = <<>> THEN <<>>
  ELSE (IF Head(ks) # <<>> /\ Strip(Head(ks)) # <<>> THEN <<Lower(Head(ks))>> ELSE <<>>)
       \o LowerAll(Tail(ks))

\* ------------------------------------------------------------------------
\* Program constants
\* ------------------------------------------------------------------------
AI_CONCURRENCY == 2
ALERT_CONCURRENCY == 4

\* ------------------------------------------------------------------------
\* State
\* ------------------------------------------------------------------------
VARIABLES
  fs,                      \* the rule source: [kind, cfg, mtime]
  CONFIG_CACHE,            \* published config dict ({} before the first load)
  CONFIG_MTIME,            \* modification token of the published config
  COMPILED_ALERT_REGEX,    \* compiled alert patterns, each held as its pattern
  KEYWORDS_LC,             \* lowercased monitoring keywords
  ALERT_KEYWORDS_LC,       \* lowercased alert keywords
  MONITORED_CHANNELS_SET,  \* channel allow-list
  ld,                      \* load_config_sync calls running on executor threads
  h,                       \* message_handler coroutine of each event
  tasks,                   \* notify / AI / alert tasks created for each event
  ai_semaphore,            \* free AI permits
  alert_semaphore,         \* free alert permits
  logs,                    \* documents of logs_collection
  db_up,                   \* the store accepts inserts
  api_up,                  \* the API collaborator answers 200
  tg_up,                   \* the transport client delivers send_message
  SENDER_DISPLAY_CACHE,    \* _SENDER_DISPLAY_CACHE: sender id -> [sender, ts]
  now,                     \* time.time()
  loaded_from,             \* caller and source of the latest load that ran alone
  reload_response,         \* latest answer of POST /api/internal/config/reload
  boot,                    \* main(): the session retry loops before serving
  SHUTDOWN,                \* the SHUTDOWN event is set
  main_pc,                 \* main() from run_until_disconnected on
  tg_silent,               \* the transport client no longer answers
  ident,                   \* USER_ID and the user id each site has attributed to
  helper                   \* one run of login_helper.py: argv, position, stdout

globals == <<CONFIG_CACHE, CONFIG_MTIME, COMPILED_ALERT_REGEX, KEYWORDS_LC,
             ALERT_KEYWORDS_LC, MONITORED_CHANNELS_SET>>
sems == <<ai_semaphore, alert_semaphore>>
env == <<db_up, api_up, tg_up>>
idcache == <<SENDER_DISPLAY_CACHE, now>>
reloads == <<loaded_from, reload_response>>
lifecycle == <<boot, SHUTDOWN, main_pc, tg_silent, ident, helper>>
vars == <<fs, globals, ld, h, tasks, sems, logs, env, idcache, reloads, lifecycle>>

\* ------------------------------------------------------------------------
\* Config dicts. ai_analysis is "dict" when the section is an object, whose
\* entries are then ai_trigger_enabled and ai_trigger_users, and "null" when
\* the source gives it as null.
\* ------------------------------------------------------------------------
default_config ==
  [nonempty |-> TRUE, keywords |-> <<>>, channels |-> <<>>, alert_keywords |-> <<>>,
   alert_regex |-> <<>>, log_all_messages |-> TRUE, ai_analysis |-> "dict",
   ai_trigger_enabled |-> FALSE, ai_trigger_users |-> JList(<<>>), user_id |-> None]

\* the module-level CONFIG_CACHE = {}
EmptyDict == [default_config EXCEPT !.nonempty = FALSE]

\* `CONFIG_CACHE or default_config()`
CacheOrDefault(cache) == IF cache.nonempty THEN cache ELSE default_config

\* base = default_config(); base.update(cfg); the four list fields normalized
NormalizedConfig(cfg) ==
  [nonempty |-> TRUE,
   keywords |-> normalize_list(cfg.keywords),
   channels |-> normalize_list(cfg.channels),
   alert_keywords |-> normalize_list(cfg.alert_keywords),
   alert_regex |-> normalize_list(cfg.alert_regex),
   log_all_messages |-> cfg.log_all_messages,
   ai_analysis |-> cfg.ai_analysis,
   ai_trigger_enabled |-> cfg.ai_trigger_enabled,
   ai_trigger_users |-> cfg.ai_trigger_users,
   user_id |-> cfg.user_id]

\* a source document with the given lists
SrcCfg(kw, akw, rx, ch, logall, aion, aiusers) ==
  [keywords |-> kw, alert_keywords |-> akw, alert_regex |-> rx, channels |-> ch,
   log_all_messages |-> logall, ai_analysis |-> "dict",
   ai_trigger_enabled |-> aion, ai_trigger_users |-> JList(aiusers), user_id |-> None]

\* the same document with "ai_analysis": null
NullAiAnalysis(cfg) ==
  [cfg EXCEPT !.ai_analysis = "null", !.ai_trigger_enabled = FALSE,
               !.ai_trigger_users = JList(<<>>)]

NoCfg == SrcCfg(JNull, JNull, JNull, JNull, TRUE, FALSE, <<>>)

ValidSource(cfg, mtime) == [kind |-> "valid", cfg |-> cfg, mtime |-> mtime]
MissingSource == [kind |-> "missing", cfg |-> NoCfg, mtime |-> 0]
DirSource(mtime) == [kind |-> "dir", cfg |-> NoCfg, mtime |-> mtime]
MalformedSource(mtime) == [kind |-> "malformed", cfg |-> NoCfg, mtime |-> mtime]

\* ------------------------------------------------------------------------
\* load_config_sync as one call that runs alone (no other thread or
\* coroutine touches the globals meanwhile): the globals after the call.
\* ------------------------------------------------------------------------
GlobalsRec(cache, mtime, rx, kw, akw, ch) ==
  [CONFIG_CACHE |-> cache, CONFIG_MTIME |-> mtime, COMPILED_ALERT_REGEX |-> rx,
   KEYWORDS_LC |-> kw, ALERT_KEYWORDS_LC |-> akw, MONITORED_CHANNELS_SET |-> ch]

ImportGlobals == GlobalsRec(EmptyDict, 0, <<>>, <<>>, <<>>, {})

\* mutant: no comparison of the modification token, and the compiled
\* patterns are appended to the list already published
load_config_sync_AppendAlways(g, f) ==
  IF f.kind \in {"missing", "dir"}
  THEN [g EXCEPT !.CONFIG_CACHE = default_config, !.CONFIG_MTIME = 0,
                 !.COMPILED_ALERT_REGEX = <<>>]
  ELSE IF f.kind = "malformed"
  THEN [g EXCEPT !.CONFIG_CACHE = default_config, !.COMPILED_ALERT_REGEX = <<>>]
  ELSE LET base == NormalizedConfig(f.cfg)
       IN GlobalsRec(base, f.mtime,
                     g.COMPILED_ALERT_REGEX \o CompilePatterns(base.alert_regex),
                     LowerAll(base.keywords), LowerAll(base.alert_keywords),
                     SeqToSet(base.channels))

load_config_sync(g, f) ==
  IF f.kind \in {"missing", "dir"}
  THEN [g EXCEPT !.CONFIG_CACHE = default_config, !.CONFIG_MTIME = 0,
                 !.COMPILED_ALERT_REGEX = <<>>]
  ELSE IF g.CONFIG_CACHE.nonempty /\ f.mtime = g.CONFIG_MTIME
  THEN g
  ELSE IF f.kind = "malformed"
  THEN [g EXCEPT !.CONFIG_CACHE = default_config, !.COMPILED_ALERT_REGEX = <<>>]
  ELSE LET base == NormalizedConfig(f.cfg)
       IN GlobalsRec(base, f.mtime, CompilePatterns(base.alert_regex),
                     LowerAll(base.keywords), LowerAll(base.alert_keywords),
                     SeqToSet(base.channels))

CurrentGlobals ==
  GlobalsRec(CONFIG_CACHE, CONFIG_MTIME, COMPILED_ALERT_REGEX, KEYWORDS_LC,
             ALERT_KEYWORDS_LC, MONITORED_CHANNELS_SET)

SetGlobals(g) ==
  /\ CONFIG_CACHE' = g.CONFIG_CACHE
  /\ CONFIG_MTIME' = g.CONFIG_MTIME
  /\ COMPILED_ALERT_REGEX' = g.COMPILED_ALERT_REGEX
  /\ KEYWORDS_LC' = g.KEYWORDS_LC
  /\ ALERT_KEYWORDS_LC' = g.ALERT_KEYWORDS_LC
  /\ MONITORED_CHANNELS_SET' = g.MONITORED_CHANNELS_SET

\* ------------------------------------------------------------------------
\* message_handler: the pieces of the classification
\* ------------------------------------------------------------------------
NEv == IF MaxBurst > MaxEvents THEN MaxBurst ELSE MaxEvents
EventIds == 1..NEv

\* " ".join([n for n in [first_name, last_name] if n]), None when both are empty
FullName(s) ==
  IF s.first_name # None /\ s.last_name # None THEN s.first_name \o <<" ">> \o s.last_name
  ELSE IF s.first_name # None THEN s.first_name
  ELSE s.last_name

\* the display name of a sender that is not in the cache
SenderDisplay(s, channel_name) ==
  IF FullName(s) # None THEN FullName(s)
  ELSE IF s.username # None THEN <<"@">> \o s.username
  ELSE IF s.id # None THEN s.id
  ELSE channel_name

\* SENDER_CACHE_TTL_SEC in ticks of the clock (3600 seconds in the program)
SENDER_CACHE_TTL_SEC == 3

SenderIds == {<<"7">>, <<"8">>}

\* no entry under a key of _SENDER_DISPLAY_CACHE. An entry is {"sender", "ts"};
\* `resolved` is not stored by the program: it remembers when the name of the
\* entry was last computed from the sender's entity.
NoEntry == [sender |-> None, ts |-> 0, resolved |-> 0]

\* the calls against the transport client that resolve a sender
SenderCalls ==
  {"get_sender", "get_entity(sender_id)", "get_entity(from_id)", "GetFullUserRequest"}

\* mutant: event.sender_id is not consulted
SenderId_EntityOnly(sender_entity, ev) == sender_entity.id

\* sender_id: the id of the entity event.get_sender() returned, else
\* event.sender_id (ev.sender.id); an entity of None has no id
SenderId(sender_entity, ev) ==
  IF sender_entity.id # None THEN sender_entity.id ELSE ev.sender.id

\* no sender entity: event.get_sender() returned None or raised
NoSender == [id |-> None, username |-> None, first_name |-> None, last_name |-> None]

\* first_name or last_name is set
HasName(entity) == entity.first_name # None \/ entity.last_name # None

\* event.get_sender(), sender_id and the cache read at time t. ev.sender is
\* the profile the transport has of the sender; each call of ev.fails
\* raises, every other call returns that profile.
CacheRead(cache, t, ev) ==
  LET got == IF "get_sender" \in ev.fails THEN NoSender ELSE ev.sender
      sender_id == SenderId(got, ev)
      cached == IF sender_id # None THEN cache[sender_id] ELSE NoEntry
  IN [got |-> got, sender_id |-> sender_id, cached |-> cached,
      cached_hit |-> /\ sender_id # None
                     /\ cached # NoEntry
                     /\ (t - cached.ts) < SENDER_CACHE_TTL_SEC]

\* the three lookups that follow the cache read c: which are made (by_*)
\* and whether any call has returned the profile
Enrich(c, ev) ==
  LET by_id == ~c.cached_hit /\ c.sender_id # None /\ ~HasName(c.got)
      ans_id == by_id /\ "get_entity(sender_id)" \notin ev.fails
      named1 == HasName(c.got) \/ (ans_id /\ HasName(ev.sender))
      by_from == ~named1 /\ ev.from_id
      ans_from == by_from /\ "get_entity(from_id)" \notin ev.fails
      named2 == named1 \/ (ans_from /\ HasName(ev.sender))
      by_full == ~c.cached_hit /\ c.sender_id # None /\ ~named2
      ans_full == by_full /\ "GetFullUserRequest" \notin ev.fails
  IN [lookups |-> (IF by_id THEN {"get_entity(sender_id)"} ELSE {})
                  \cup (IF by_from THEN {"get_entity(from_id)"} ELSE {})
                  \cup (IF by_full THEN {"GetFullUserRequest"} ELSE {}),
      \* sender_entity = sender_entity or detailed_entity
      sender_entity |-> IF c.got # NoSender THEN c.got
                        ELSE IF ans_id THEN ev.sender ELSE NoSender,
      answered |-> c.got # NoSender \/ ans_id \/ ans_from \/ ans_full]

\* the sender block of message_handler at time t: cache read, the lookups
\* made against the transport client, the display name, cache write
ResolveSender(cache, t, ev, channel_name) ==
  LET c == CacheRead(cache, t, ev)
      k == Enrich(c, ev)
      shown == [(IF k.answered THEN ev.sender ELSE NoSender) EXCEPT !.id = c.sender_id]
      sender == IF c.cached_hit THEN c.cached.sender ELSE SenderDisplay(shown, channel_name)
      resolved == IF c.cached_hit THEN c.cached.resolved ELSE t
  IN [sender |-> sender,
      sender_entity |-> [k.sender_entity EXCEPT !.id = c.sender_id],
      cached_hit |-> c.cached_hit,
      lookups |-> k.lookups,
      resolved |-> resolved,
      cache |-> IF c.sender_id # None
                THEN [cache EXCEPT ![c.sender_id] =
                        [sender |-> sender, ts |-> t, resolved |-> resolved]]
                ELSE cache]

\* [str(x).strip() for x in xs if x]
RECURSIVE StripTruthy(_)
StripTruthy(xs) ==
  IF xs = <<>> THEN <<>>
  ELSE (IF Head(xs) # None THEN <<Strip(Head(xs))>> ELSE <<>>) \o StripTruthy(Tail(xs))

\* [str(u).strip() for u in ai_trigger_users]
StripEach(xs) == [i \in 1..Len(xs) |-> Strip(xs[i])]

\* str.splitlines(), up to the empty pieces the caller drops
RECURSIVE SplitLines(_)
SplitLines(s) ==
  IF \E i \in 1..Len(s) : s[i] = "\n"
  THEN LET i == CHOOSE j \in 1..Len(s) : s[j] = "\n" /\ \A k \in 1..(j - 1) : s[k] # "\n"
       IN <<SubSeq(s, 1, i - 1)>> \o SplitLines(SubSeq(s, i + 1, Len(s)))
  ELSE <<s>>

\* bool(v) of the ai_trigger_users value
Truthy(v) ==
  CASE v.type = "null" -> FALSE
    [] v.type = "list" -> v.val # <<>>
    [] v.type = "str" -> v.val[1] # <<>>
    [] OTHER -> v.val[1] # <<"0">>

\* `ai_analysis_config.get("ai_trigger_users", []) or []`, split by lines when
\* it is a string; a list is taken as it is
TriggerUsers(v) ==
  IF ~Truthy(v) THEN <<>>
  ELSE IF v.type = "str" THEN StripNonEmpty(SplitLines(v.val[1]))
  ELSE v.val

\* the statements of the handler that raise: .get on a None section, and
\* the iteration over a trigger-user value that is neither list nor string
TriggerRaises(config, sender_id) ==
  \/ config.ai_analysis = "null"
  \/ /\ config.ai_trigger_enabled
     /\ config.ai_trigger_users.type = "scalar"
     /\ Truthy(config.ai_trigger_users)
     /\ sender_id # None

\* mutant: a sender without id is matched as well
IsTriggerUser_NoIdGuard(config, s, sender) ==
  /\ config.ai_trigger_enabled
  /\ TriggerUsers(config.ai_trigger_users) # <<>>
  /\ LET sender_triggers ==
           StripTruthy(<<s.id,
                         IF s.username # None THEN <<"@">> \o s.username ELSE None,
                         FullName(s),
                         sender>>)
         normalized_trigger_users == StripEach(TriggerUsers(config.ai_trigger_users))
     IN \E i \in 1..Len(normalized_trigger_users), j \in 1..Len(sender_triggers) :
          \/ Lower(normalized_trigger_users[i]) = Lower(sender_triggers[j])
          \/ normalized_trigger_users[i] = sender_triggers[j]

IsTriggerUser(config, s, sender) ==
  /\ config.ai_trigger_enabled
  /\ TriggerUsers(config.ai_trigger_users) # <<>>
  /\ s.id # None
  /\ LET sender_triggers ==
           StripTruthy(<<s.id,
                         IF s.username # None THEN <<"@">> \o s.username ELSE None,
                         FullName(s),
                         sender>>)
         normalized_trigger_users == StripEach(TriggerUsers(config.ai_trigger_users))
     IN \E i \in 1..Len(normalized_trigger_users), j \in 1..Len(sender_triggers) :
          \/ Lower(normalized_trigger_users[i]) = Lower(sender_triggers[j])
          \/ normalized_trigger_users[i] = sender_triggers[j]

\* mutant: the monitoring-keyword loop stops at its first match
MatchKeywords_FirstOnly(keywords_list, kw_lc, text_lc) ==
  LET hits == {i \in 1..Len(kw_lc) : kw_lc[i] # <<>> /\ Contains(text_lc, kw_lc[i])}
  IN IF hits = {} THEN <<>>
     ELSE LET i == CHOOSE k \in hits : \A j \in hits : k <= j
          IN <<IF i <= Len(keywords_list) THEN keywords_list[i] ELSE kw_lc[i]>>

\* the monitoring-keyword loop: every matching entry of KEYWORDS_LC, reported
\* as the keyword of the same index of config["keywords"]
MatchKeywords(keywords_list, kw_lc, text_lc) ==
  LET F[i \in 0..Len(kw_lc)] ==
        IF i = 0 THEN <<>>
        ELSE IF kw_lc[i] # <<>> /\ Contains(text_lc, kw_lc[i])
             THEN Append(F[i - 1], IF i <= Len(keywords_list) THEN keywords_list[i] ELSE kw_lc[i])
             ELSE F[i - 1]
  IN F[Len(kw_lc)]

\* mutant: the alert-keyword loop has no break, the last match wins
AlertIndex_Last(akw_lc, text_lc) ==
  LET hits == {i \in 1..Len(akw_lc) : akw_lc[i] # <<>> /\ Contains(text_lc, akw_lc[i])}
  IN IF hits = {} THEN 0 ELSE CHOOSE i \in hits : \A j \in hits : i >= j

\* index of the first matching entry of ALERT_KEYWORDS_LC, 0 when none matches
AlertIndex(akw_lc, text_lc) ==
  LET hits == {i \in 1..Len(akw_lc) : akw_lc[i] # <<>> /\ Contains(text_lc, akw_lc[i])}
  IN IF hits = {} THEN 0 ELSE CHOOSE i \in hits : \A j \in hits : i <= j

\* the alert-keyword loop: [matched_keywords, alert_keyword] after it
MatchAlertKeyword(matched, alert_keywords_list, akw_lc, text_lc) ==
  LET idx == AlertIndex(akw_lc, text_lc)
      alert_keyword == IF idx = 0 THEN None
                       ELSE IF idx <= Len(alert_keywords_list) THEN alert_keywords_list[idx]
                       ELSE akw_lc[idx]
  IN [matched_keywords |-> IF idx # 0 /\ alert_keyword \notin SeqToSet(matched)
                           THEN Append(matched, alert_keyword) ELSE matched,
      alert_keyword |-> alert_keyword]

RegexEntry(p) == <<"regex:">> \o p

\* mutant: the compiled patterns are scanned even when an alert keyword matched
MatchAlertRegex_Always(r, compiled, text) ==
  LET hits == {i \in 1..Len(compiled) : Search(compiled[i], text)}
  IN IF hits # {}
     THEN LET i == CHOOSE k \in hits : \A j \in hits : k <= j
          IN [matched_keywords |-> Append(r.matched_keywords, <<"regex:">> \o compiled[i]),
              alert_keyword |-> compiled[i]]
     ELSE r

\* mutant: the compiled-pattern loop has no break, the last match wins
MatchAlertRegex_LastHit(r, compiled, text) ==
  LET hits == {i \in 1..Len(compiled) : Search(compiled[i], text)}
  IN IF r.alert_keyword = None /\ hits # {}
     THEN LET i == CHOOSE k \in hits : \A j \in hits : k >= j
          IN [matched_keywords |-> Append(r.matched_keywords, RegexEntry(compiled[i])),
              alert_keyword |-> compiled[i]]
     ELSE r

\* the compiled-pattern loop, entered only when no alert keyword was chosen
MatchAlertRegex(r, compiled, text) ==
  LET hits == {i \in 1..Len(compiled) : Search(compiled[i], text)}
  IN IF r.alert_keyword = None /\ hits # {}
     THEN LET i == CHOOSE k \in hits : \A j \in hits : k <= j
          IN [matched_keywords |-> Append(r.matched_keywords, RegexEntry(compiled[i])),
              alert_keyword |-> compiled[i]]
     ELSE r

\* mutant: the channel filter lets every channel through
ChannelRejected_Off(channels, channel_id) == FALSE

\* the channel filter: TRUE when the message is dropped
ChannelRejected(channels, channel_id) == channels # {} /\ channel_id \notin channels

\* the document save_log_async inserts
LogDoc(e, ev, sender, keywords) ==
  [id |-> e, channelId |-> ev.chan, sender |-> sender, message |-> ev.text,
   keywords |-> keywords, messageId |-> e, alerted |-> keywords # <<>>]

NoEvent == [text |-> <<>>, chan |-> <<>>, sender |-> NoSender, from_id |-> FALSE, fails |-> {}]
ChannelName == <<"c", "h">>

IdleHandler ==
  [pc |-> "idle", ev |-> NoEvent, config |-> EmptyDict,
   seen_channels |-> {}, seen_kw |-> <<>>, seen_akw |-> <<>>, seen_rx |-> <<>>,
   sender |-> None, cached_hit |-> FALSE, lookups |-> {}, resolved |-> 0, at |-> 0,
   is_trigger_user |-> FALSE,
   matched_keywords |-> <<>>, alert_keyword |-> None,
   saved |-> FALSE, saved_keywords |-> <<>>, inserts |-> 0, log_id |-> 0,
   outcome |-> "none"]

\* HTTP posts and transport sends made so far by the tasks of one event
NoPosts == [notify |-> 0, ai |-> 0, alert |-> 0, send |-> 0]

NoTasks == [notify |-> "none", ai |-> "none", alert |-> "none", posts |-> NoPosts]

\* mutant: the alert push too is created only when a record id came back
CreatedTasks_NeedLogId(log_id, is_trigger_user, alert_keyword) ==
  [notify |-> IF log_id # 0 THEN "created" ELSE "none",
   ai |-> IF is_trigger_user /\ log_id # 0 THEN "created" ELSE "none",
   alert |-> IF alert_keyword # None /\ log_id # 0 THEN "created" ELSE "none",
   posts |-> NoPosts]

\* the tasks the handler creates once save_log_async has returned log_id
CreatedTasks(log_id, is_trigger_user, alert_keyword) ==
  [notify |-> IF log_id # 0 THEN "created" ELSE "none",
   ai |-> IF is_trigger_user /\ log_id # 0 THEN "created" ELSE "none",
   alert |-> IF alert_keyword # None THEN "created" ELSE "none",
   posts |-> NoPosts]

\* mutant: log_all_messages is ignored
ShouldSave_MatchedOnly(matched, log_all) == matched # <<>>

\* persist unless nothing matched and log_all_messages is off
ShouldSave(matched, log_all) == matched # <<>> \/ log_all

\* ------------------------------------------------------------------------
\* message_handler run for one event with nothing else scheduled between
\* its awaits
\* ------------------------------------------------------------------------
Classified(hr, ev, g) ==
  LET config == CacheOrDefault(g.CONFIG_CACHE)
      text_lc == Lower(ev.text)
      rs == ResolveSender(SENDER_DISPLAY_CACHE, now, ev, ChannelName)
      sender == rs.sender
      m1 == MatchKeywords(config.keywords, g.KEYWORDS_LC, text_lc)
      r2 == MatchAlertKeyword(m1, config.alert_keywords, g.ALERT_KEYWORDS_LC, text_lc)
      r3 == MatchAlertRegex(r2, g.COMPILED_ALERT_REGEX, ev.text)
  IN [hr EXCEPT !.ev = ev, !.config = config,
                !.seen_channels = g.MONITORED_CHANNELS_SET,
                !.seen_kw = g.KEYWORDS_LC, !.seen_akw = g.ALERT_KEYWORDS_LC,
                !.seen_rx = g.COMPILED_ALERT_REGEX,
                !.sender = sender, !.cached_hit = rs.cached_hit,
                !.lookups = rs.lookups, !.resolved = rs.resolved, !.at = now,
                !.is_trigger_user = IsTriggerUser(config, rs.sender_entity, sender),
                !.matched_keywords = r3.matched_keywords,
                !.alert_keyword = r3.alert_keyword]

\* sender_id as the handler has it when it reaches the AI-trigger block
SenderIdOf(ev) == ResolveSender(SENDER_DISPLAY_CACHE, now, ev, ChannelName).sender_entity.id

\* the handler up to `ai_analysis_config.get(...)`, which raises when the
\* section is None: the sender is resolved and cached, nothing is classified
Resolved(hr, ev, g) ==
  LET rs == ResolveSender(SENDER_DISPLAY_CACHE, now, ev, ChannelName)
  IN [hr EXCEPT !.ev = ev, !.config = CacheOrDefault(g.CONFIG_CACHE),
                !.seen_channels = g.MONITORED_CHANNELS_SET,
                !.sender = rs.sender, !.cached_hit = rs.cached_hit,
                !.lookups = rs.lookups, !.resolved = rs.resolved, !.at = now]

message_handler(e, ev) ==
  /\ h[e].pc = "idle"
  /\ \A d \in 1..(e - 1) : h[d].pc # "idle"
  /\ LET g == CurrentGlobals
         c == Classified(h[e], ev, g)
     IN IF ev.text = <<>>
        THEN /\ h' = [h EXCEPT ![e] = [@ EXCEPT !.pc = "done", !.ev = ev,
                                               !.config = CacheOrDefault(g.CONFIG_CACHE),
                                               !.outcome = "empty"]]
             /\ UNCHANGED <<tasks, logs, SENDER_DISPLAY_CACHE>>
        ELSE IF ChannelRejected(g.MONITORED_CHANNELS_SET, ev.chan)
        THEN /\ h' = [h EXCEPT ![e] = [@ EXCEPT !.pc = "done", !.ev = ev,
                                               !.config = CacheOrDefault(g.CONFIG_CACHE),
                                               !.seen_channels = g.MONITORED_CHANNELS_SET,
                                               !.outcome = "rejected"]]
             /\ UNCHANGED <<tasks, logs, SENDER_DISPLAY_CACHE>>
        ELSE IF TriggerRaises(c.config, SenderIdOf(ev))
        THEN /\ h' = [h EXCEPT ![e] = [Resolved(h[e], ev, g) EXCEPT
                                         !.pc = "done", !.outcome = "raised"]]
             /\ SENDER_DISPLAY_CACHE' =
                  ResolveSender(SENDER_DISPLAY_CACHE, now, ev, ChannelName).cache
             /\ UNCHANGED <<tasks, logs>>
        ELSE IF ~ShouldSave(c.matched_keywords, c.config.log_all_messages)
        THEN /\ h' = [h EXCEPT ![e] = [c EXCEPT !.pc = "done", !.outcome = "unlogged"]]
             /\ SENDER_DISPLAY_CACHE' =
                  ResolveSender(SENDER_DISPLAY_CACHE, now, ev, ChannelName).cache
             /\ UNCHANGED <<tasks, logs>>
        ELSE LET log_id == IF db_up THEN e ELSE 0
             IN /\ h' = [h EXCEPT ![e] = [c EXCEPT !.pc = "done", !.outcome = "handled",
                                                   !.saved = TRUE,
                                                   !.saved_keywords = c.matched_keywords,
                                                   !.inserts = @ + 1,
                                                   !.log_id = log_id]]
                /\ SENDER_DISPLAY_CACHE' =
                     ResolveSender(SENDER_DISPLAY_CACHE, now, ev, ChannelName).cache
                /\ logs' = IF db_up
                           THEN logs \cup {LogDoc(e, ev, c.sender, c.matched_keywords)}
                           ELSE logs
                /\ tasks' = [tasks EXCEPT ![e] =
                               CreatedTasks(log_id, c.is_trigger_user, c.alert_keyword)]
  /\ UNCHANGED <<fs, globals, ld, sems, env, now, reloads, lifecycle>>

\* ------------------------------------------------------------------------
\* The first load of main(), before the handler is registered
\* ------------------------------------------------------------------------

\* the locals of one load_config_sync call
Loader(pc, mtime, base, patterns, i) ==
  [pc |-> pc, mtime |-> mtime, base |-> base, patterns |-> patterns, i |-> i]

IdleThread == Loader("idle", 0, EmptyDict, <<>>, 0)

StartupLoad ==
  /\ ld["main"].pc = "idle"
  /\ SetGlobals(load_config_sync(CurrentGlobals, fs))
  /\ ld' = [ld EXCEPT !["main"].pc = "done"]
  /\ loaded_from' = [by |-> "main", source |-> fs, n |-> 1]
  /\ UNCHANGED <<fs, h, tasks, sems, logs, env, idcache, reload_response, lifecycle>>

Started == ld["main"].pc = "done"

\* ------------------------------------------------------------------------
\* Initial state: the module's globals as the import leaves them
\* ------------------------------------------------------------------------
\* no load_config_sync call has returned yet
NoLoad == [by |-> "none", source |-> MissingSource, n |-> 0]

Threads == {"poll", "push"}
Loaders == {"main"} \cup Threads

\* ------------------------------------------------------------------------
\* main(): the retry loops around the session file
\* ------------------------------------------------------------------------
max_connect_retries == 5
connect_retry_delay == 2
max_get_me_retries == 5
get_me_retry_delay == 2

\* the connect loop, the get_me loop of the authorization check and the
\* get_me loop after the handler is registered
Loops == {"connect", "authorization", "get_me"}

\* a call returns, raises 'database is locked' / OperationalError, or raises
\* something else
Outcomes == {"ok", "locked", "error"}

\* calls made by a loop and how each ended, its asyncio.sleep waits in
\* seconds, how the loop ended
NoLoop == [attempts |-> 0, calls |-> <<>>, waits |-> <<>>, result |-> "pending"]

\* the start loop of the authorization check
max_retries == 2

\* main() before the session file is looked for: is_authorized and
\* retry_count are the locals of main(), connected is the state of the
\* client, denied the reason for which authorization was given up, handler,
\* http and reloader what main() has registered and started
Booting ==
  [phase |-> "session", retry |-> 0, loops |-> [l \in Loops |-> NoLoop], exit |-> "none",
   is_authorized |-> FALSE, connected |-> FALSE, retry_count |-> 0, denied |-> "none",
   handler |-> FALSE, http |-> FALSE, reloader |-> FALSE]

\* main() with the three loops passed at their first call
Booted ==
  [phase |-> "serving", retry |-> 0,
   loops |-> [l \in Loops |-> [attempts |-> 1, calls |-> <<"ok">>, waits |-> <<>>,
                            result |-> "success"]],
   exit |-> "none",
   is_authorized |-> TRUE, connected |-> TRUE, retry_count |-> 0, denied |-> "none",
   handler |-> TRUE, http |-> TRUE, reloader |-> TRUE]

\* mutant: the same wait before every retry
RetryStep_ConstantDelay(lp, retry, limit, retry_delay, r) ==
  LET tried == [lp EXCEPT !.attempts = @ + 1, !.calls = Append(@, r)]
  IN IF r = "ok"
     THEN [loop |-> [tried EXCEPT !.result = "success"], retry |-> retry, ctl |-> "break"]
     ELSE IF r = "locked" /\ retry < limit - 1
     THEN [loop |-> [tried EXCEPT !.waits = Append(@, retry_delay)],
           retry |-> retry + 1, ctl |-> "continue"]
     ELSE [loop |-> [tried EXCEPT !.result = IF r = "locked" THEN "exhausted" ELSE "error"],
           retry |-> retry, ctl |-> "raise"]

\* mutant: every error is retried
RetryStep_RetryAll(lp, retry, limit, retry_delay, r) ==
  LET tried == [lp EXCEPT !.attempts = @ + 1, !.calls = Append(@, r)]
  IN IF r = "ok"
     THEN [loop |-> [tried EXCEPT !.result = "success"], retry |-> retry, ctl |-> "break"]
     ELSE IF retry < limit - 1
     THEN [loop |-> [tried EXCEPT !.waits = Append(@, retry_delay * (retry + 1))],
           retry |-> retry + 1, ctl |-> "continue"]
     ELSE [loop |-> [tried EXCEPT !.result = IF r = "locked" THEN "exhausted" ELSE "error"],
           retry |-> retry, ctl |-> "raise"]

\* one pass of `for retry in range(max_retries)` in which the call ended
\* with r: success leaves the loop, a locked session before the last pass
\* sleeps retry_delay * (retry + 1) and goes on, anything else leaves the
\* loop with the error
RetryStep(lp, retry, limit, retry_delay, r) ==
  LET tried == [lp EXCEPT !.attempts = @ + 1, !.calls = Append(@, r)]
  IN IF r = "ok"
     THEN [loop |-> [tried EXCEPT !.result = "success"], retry |-> retry, ctl |-> "break"]
     ELSE IF r = "locked" /\ retry < limit - 1
     THEN [loop |-> [tried EXCEPT !.waits = Append(@, retry_delay * (retry + 1))],
           retry |-> retry + 1, ctl |-> "continue"]
     ELSE [loop |-> [tried EXCEPT !.result = IF r = "locked" THEN "exhausted" ELSE "error"],
           retry |-> retry, ctl |-> "raise"]

\* what each site has attributed to: <<>> before the site has run, <<id>>
\* after, id being None when the site found no user id
Unattributed(uid) ==
  [USER_ID |-> uid, session |-> <<>>, log |-> <<>>, notify |-> <<>>, alert |-> <<>>]

\* login_helper.py is not running
NoHelper == [argv |-> <<>>, pc |-> "none", stdout |-> <<>>, status |-> 0]

InitAll(source, b, uid, hp) ==
  /\ fs = source
  /\ CONFIG_CACHE = EmptyDict
  /\ CONFIG_MTIME = 0
  /\ COMPILED_ALERT_REGEX = <<>>
  /\ KEYWORDS_LC = <<>>
  /\ ALERT_KEYWORDS_LC = <<>>
  /\ MONITORED_CHANNELS_SET = {}
  /\ ld = [l \in Loaders |-> IdleThread]
  /\ h = [e \in EventIds |-> IdleHandler]
  /\ tasks = [e \in EventIds |-> NoTasks]
  /\ ai_semaphore = AI_CONCURRENCY
  /\ alert_semaphore = ALERT_CONCURRENCY
  /\ logs = {}
  /\ db_up = TRUE
  /\ api_up = TRUE
  /\ tg_up = TRUE
  /\ SENDER_DISPLAY_CACHE = [i \in SenderIds |-> NoEntry]
  /\ now = 0
  /\ loaded_from = NoLoad
  /\ reload_response = "none"
  /\ boot = b
  /\ SHUTDOWN = FALSE
  /\ main_pc = "serving"
  /\ tg_silent = FALSE
  /\ ident = Unattributed(uid)
  /\ helper = hp

InitProcess(source, b, uid) == InitAll(source, b, uid, NoHelper)

InitState(source, b) == InitProcess(source, b, None)

InitWith(source) == InitState(source, Booted)

\* ------------------------------------------------------------------------
\* SpecClassify: the classifier applied to drawn rule lists and texts
\* ------------------------------------------------------------------------
SeqsUpTo(S, n) == UNION {[1..k -> S] : k \in 0..n}

KwPool == {<<"a">>, <<"A", "b">>, <<" ", "b">>}
AlertPool == {<<"A", "b">>, <<"b">>}
RegexPool == {<<"A">>, <<"(">>}
TextAlphabet == {"A", "b"}
Texts == SeqsUpTo(TextAlphabet, MaxText)

PlainSender == [id |-> <<"7">>, username |-> <<"b">>, first_name |-> None, last_name |-> None]

InitClassify ==
  \E kw \in SeqsUpTo(KwPool, MaxList), akw \in SeqsUpTo(AlertPool, MaxList),
     rx \in SeqsUpTo(RegexPool, MaxList), la \in BOOLEAN :
    InitWith(ValidSource(SrcCfg(JList(kw), JList(akw), JList(rx), JList(<<>>),
                                la, FALSE, <<>>), 1))

ClassifyMessage ==
  /\ Started
  /\ \E text \in Texts : message_handler(1, [text |-> text, chan |-> <<"1">>, sender |-> PlainSender,
                                      from_id |-> FALSE, fails |-> {}])

NextClassify == StartupLoad \/ ClassifyMessage

SpecClassify == InitClassify /\ [][NextClassify]_vars

\* the handler of e went through the classification
Handled(e) == h[e].pc = "done" /\ h[e].outcome \in {"handled", "unlogged"}

\* keyword k is a case-insensitive substring of the text of e
KwInText(k, e) == Contains(Lower(h[e].ev.text), Lower(k))

\* C3: every configured monitoring keyword whose lowercase form occurs in the
\* lowercased text is in the keyword list handed to save_log_async (all the
\* matching keywords, not only the first one).
C3_AllMatchesCollected ==
  \A e \in EventIds : Handled(e) =>
    \A i \in 1..Len(h[e].config.keywords) :
      KwInText(h[e].config.keywords[i], e) =>
        /\ h[e].saved
        /\ h[e].config.keywords[i] \in SeqToSet(h[e].saved_keywords)

C3_Witness ==
  \E e \in EventIds :
    /\ Handled(e) /\ h[e].saved
    /\ \E i, j \in 1..Len(h[e].config.keywords) :
         /\ i < j
         /\ h[e].config.keywords[i] # h[e].config.keywords[j]
         /\ KwInText(h[e].config.keywords[i], e)
         /\ KwInText(h[e].config.keywords[j], e)

IsRegexEntry(k) == k # <<>> /\ Head(k) = "regex:"

\* C4: when an alert keyword occurs in the text and a compiled pattern also
\* matches it, the alert trigger is an alert keyword and no "regex:" entry is
\* recorded.
C4_KeywordBeforeRegex ==
  \A e \in EventIds :
    ( /\ Handled(e)
      /\ \E i \in 1..Len(h[e].config.alert_keywords) : KwInText(h[e].config.alert_keywords[i], e)
      /\ \E j \in 1..Len(h[e].seen_rx) : Search(h[e].seen_rx[j], h[e].ev.text) )
    => /\ h[e].alert_keyword \in SeqToSet(h[e].config.alert_keywords)
       /\ KwInText(h[e].alert_keyword, e)
       /\ \A k \in 1..Len(h[e].matched_keywords) : ~IsRegexEntry(h[e].matched_keywords[k])

C4_Witness ==
  \E e \in EventIds :
    /\ Handled(e)
    /\ \E i \in 1..Len(h[e].config.alert_keywords) : KwInText(h[e].config.alert_keywords[i], e)
    /\ \E j \in 1..Len(h[e].seen_rx) : Search(h[e].seen_rx[j], h[e].ev.text)
    /\ h[e].alert_keyword # None

\* the monitoring keywords of e's config that occur in its text, in list order
MonitorMatches(e) == SelectSeq(h[e].config.keywords, LAMBDA k : KwInText(k, e))

\* index of the first alert keyword of e's config that occurs in its text
FirstAlert(e) ==
  LET hits == {i \in 1..Len(h[e].config.alert_keywords) :
                 KwInText(h[e].config.alert_keywords[i], e)}
  IN IF hits = {} THEN 0 ELSE CHOOSE i \in hits : \A j \in hits : i <= j

\* C5: the alert trigger is the first alert keyword, in list order, that
\* occurs in the lowercased text; matchedKeywords is the matched monitoring
\* keywords followed by that keyword, unless it is already among them.
C5_FirstAlertKeyword ==
  \A e \in EventIds : (Handled(e) /\ FirstAlert(e) # 0) =>
    LET a == h[e].config.alert_keywords[FirstAlert(e)]
    IN /\ h[e].alert_keyword = a
       /\ h[e].matched_keywords =
            IF a \in SeqToSet(MonitorMatches(e)) THEN MonitorMatches(e)
            ELSE Append(MonitorMatches(e), a)
       /\ h[e].saved /\ h[e].saved_keywords = h[e].matched_keywords

\* a monitoring keyword and a later, different alert keyword both match, and
\* a second alert keyword matches too
C5_Witness ==
  \E e \in EventIds :
    /\ Handled(e) /\ FirstAlert(e) # 0
    /\ Len(MonitorMatches(e)) = 1
    /\ h[e].matched_keywords =
         <<MonitorMatches(e)[1], h[e].config.alert_keywords[FirstAlert(e)]>>
    /\ MonitorMatches(e)[1] # h[e].config.alert_keywords[FirstAlert(e)]
    /\ \E j \in 1..Len(h[e].config.alert_keywords) :
         j > FirstAlert(e) /\ KwInText(h[e].config.alert_keywords[j], e)
         /\ h[e].config.alert_keywords[j] # h[e].alert_keyword

\* ------------------------------------------------------------------------
\* The tasks created by the handler
\* ------------------------------------------------------------------------
\* mutant: a failed notify is posted again
notify_new_message_async_Retry(e) ==
  /\ tasks[e].notify = "created"
  /\ tasks' = [tasks EXCEPT ![e].notify = IF api_up THEN "ok" ELSE "created",
                             ![e].posts.notify = @ + 1]
  /\ UNCHANGED <<fs, globals, ld, h, sems, logs, env, idcache, reloads, lifecycle>>

\* notify_new_message_async: one POST with timeout 3, failures swallowed
notify_new_message_async(e) ==
  /\ tasks[e].notify = "created"
  /\ tasks' = [tasks EXCEPT ![e].notify = IF api_up THEN "ok" ELSE "failed",
                             ![e].posts.notify = @ + 1]
  /\ UNCHANGED <<fs, globals, ld, h, sems, logs, env, idcache, reloads, lifecycle>>

\* mutant: the AI call is made without waiting for a permit
AiAcquire_NoWait(e) ==
  /\ tasks[e].ai = "created"
  /\ ai_semaphore' = ai_semaphore - 1
  /\ tasks' = [tasks EXCEPT ![e].ai = "running"]
  /\ UNCHANGED <<fs, globals, ld, h, alert_semaphore, logs, env, idcache, reloads, lifecycle>>

\* `async with ai_semaphore:` entered
AiAcquire(e) ==
  /\ tasks[e].ai = "created"
  /\ ai_semaphore > 0
  /\ ai_semaphore' = ai_semaphore - 1
  /\ tasks' = [tasks EXCEPT ![e].ai = "running"]
  /\ UNCHANGED <<fs, globals, ld, h, alert_semaphore, logs, env, idcache, reloads, lifecycle>>

\* the analyze-now POST (timeout 120) has answered or failed
AiPost(e) ==
  /\ tasks[e].ai = "running"
  /\ IF api_up
     THEN /\ tasks' = [tasks EXCEPT ![e].ai = "relay", ![e].posts.ai = @ + 1]
          /\ UNCHANGED ai_semaphore
     ELSE /\ tasks' = [tasks EXCEPT ![e].ai = "failed", ![e].posts.ai = @ + 1]
          /\ ai_semaphore' = ai_semaphore + 1
  /\ UNCHANGED <<fs, globals, ld, h, alert_semaphore, logs, env, idcache, reloads, lifecycle>>

\* mutant: a send_message that raises leaves the AI permit taken
AiRelay_LeakOnFailure(e) ==
  /\ tasks[e].ai = "relay"
  /\ ~tg_silent
  /\ tasks' = [tasks EXCEPT ![e].ai = IF tg_up THEN "ok" ELSE "failed",
                             ![e].posts.send = @ + 1]
  /\ ai_semaphore' = IF tg_up THEN ai_semaphore + 1 ELSE ai_semaphore
  /\ UNCHANGED <<fs, globals, ld, h, alert_semaphore, logs, env, idcache, reloads, lifecycle>>

\* client.send_message of the summary has returned or raised; permit
\* released. The call carries no timeout: it ends only if the transport
\* client answers.
AiRelay(e) ==
  /\ tasks[e].ai = "relay"
  /\ ~tg_silent
  /\ tasks' = [tasks EXCEPT ![e].ai = IF tg_up THEN "ok" ELSE "failed",
                             ![e].posts.send = @ + 1]
  /\ ai_semaphore' = ai_semaphore + 1
  /\ UNCHANGED <<fs, globals, ld, h, alert_semaphore, logs, env, idcache, reloads, lifecycle>>

\* `async with alert_semaphore:` entered
AlertAcquire(e) ==
  /\ tasks[e].alert = "created"
  /\ alert_semaphore > 0
  /\ alert_semaphore' = alert_semaphore - 1
  /\ tasks' = [tasks EXCEPT ![e].alert = "running"]
  /\ UNCHANGED <<fs, globals, ld, h, ai_semaphore, logs, env, idcache, reloads, lifecycle>>

\* mutant: a failed alert push rolls the log record back
AlertPost_Rollback(e) ==
  /\ tasks[e].alert = "running"
  /\ tasks' = [tasks EXCEPT ![e].alert = IF api_up THEN "ok" ELSE "failed",
                             ![e].posts.alert = @ + 1]
  /\ alert_semaphore' = alert_semaphore + 1
  /\ logs' = IF api_up THEN logs ELSE {d \in logs : d.id # e}
  /\ UNCHANGED <<fs, globals, ld, h, ai_semaphore, env, idcache, reloads, lifecycle>>

\* the alert/push POST (timeout 10) has answered or failed; permit released
AlertPost(e) ==
  /\ tasks[e].alert = "running"
  /\ tasks' = [tasks EXCEPT ![e].alert = IF api_up THEN "ok" ELSE "failed",
                             ![e].posts.alert = @ + 1]
  /\ alert_semaphore' = alert_semaphore + 1
  /\ UNCHANGED <<fs, globals, ld, h, ai_semaphore, logs, env, idcache, reloads, lifecycle>>

TaskStep(e) ==
  \/ notify_new_message_async(e)
  \/ AiAcquire(e)
  \/ AiPost(e)
  \/ AiRelay(e)
  \/ AlertAcquire(e)
  \/ AlertPost(e)

\* the collaborators go down and come back
StoreFlips == db_up' = ~db_up /\ UNCHANGED <<fs, globals, ld, h, tasks, sems, logs, api_up, tg_up, idcache, reloads, lifecycle>>
ApiFlips == api_up' = ~api_up /\ UNCHANGED <<fs, globals, ld, h, tasks, sems, logs, db_up, tg_up, idcache, reloads, lifecycle>>
TransportFlips == tg_up' = ~tg_up /\ UNCHANGED <<fs, globals, ld, h, tasks, sems, logs, db_up, api_up, idcache, reloads, lifecycle>>

AiInProgress == {e \in EventIds : tasks[e].ai \in {"running", "relay"}}
AlertInProgress == {e \in EventIds : tasks[e].alert = "running"}

\* ------------------------------------------------------------------------
\* SpecDispatch: events of every kind against a loaded rule set, with the
\* tasks they create and collaborators that fail
\* ------------------------------------------------------------------------
TriggerSender == PlainSender
OtherSender == [id |-> <<"8">>, username |-> None, first_name |-> <<"A">>, last_name |-> None]

\* monitor "a", alert "b", allow-list {"1"}, AI trigger for sender 7
GuardedRules ==
  SrcCfg(JList(<<<<"a">>>>), JList(<<<<"b">>>>), JList(<<>>), JStr(<<"1", ",">>),
         TRUE, TRUE, <<<<"7">>>>)
\* the same lists, every channel monitored, log_all_messages off
OpenRules ==
  SrcCfg(JList(<<<<"a">>>>), JList(<<<<"b">>>>), JList(<<>>), JNull,
         FALSE, TRUE, <<<<"@", "B">>>>)

DispatchTexts == {<<"c">>, <<"A">>, <<"b">>}
DispatchEvents ==
  {[text |-> t, chan |-> c, sender |-> s, from_id |-> FALSE, fails |-> {}] :
     t \in DispatchTexts, c \in {<<"1">>, <<"2">>}, s \in {TriggerSender, OtherSender}}

InitDispatch == \E r \in {GuardedRules, OpenRules} : InitWith(ValidSource(r, 1))

Deliver ==
  /\ Started
  /\ \E e \in 1..MaxEvents, ev \in DispatchEvents : message_handler(e, ev)

RunTask == \E e \in EventIds : TaskStep(e)

NextDispatch ==
  \/ StartupLoad
  \/ Deliver
  \/ RunTask
  \/ StoreFlips
  \/ ApiFlips
  \/ TransportFlips

SpecDispatch == InitDispatch /\ [][NextDispatch]_vars

\* ------------------------------------------------------------------------
\* SpecPool: a burst of alerting messages, every other one from the AI
\* trigger user, against collaborators that are all up or all down
\* ------------------------------------------------------------------------
BurstRules ==
  SrcCfg(JList(<<<<"a">>>>), JList(<<<<"b">>>>), JList(<<>>), JNull,
         TRUE, TRUE, <<<<"7">>>>)

BurstEvent(e) ==
  [text |-> <<"b">>, chan |-> <<"1">>,
   sender |-> IF e % 2 = 1 THEN TriggerSender ELSE OtherSender, from_id |-> FALSE, fails |-> {}]

InitPool ==
  /\ fs = ValidSource(BurstRules, 1)
  /\ CONFIG_CACHE = EmptyDict
  /\ CONFIG_MTIME = 0
  /\ COMPILED_ALERT_REGEX = <<>>
  /\ KEYWORDS_LC = <<>>
  /\ ALERT_KEYWORDS_LC = <<>>
  /\ MONITORED_CHANNELS_SET = {}
  /\ ld = [l \in Loaders |-> IdleThread]
  /\ h = [e \in EventIds |-> IdleHandler]
  /\ tasks = [e \in EventIds |-> NoTasks]
  /\ ai_semaphore = AI_CONCURRENCY
  /\ alert_semaphore = ALERT_CONCURRENCY
  /\ logs = {}
  /\ db_up = TRUE
  /\ api_up \in BOOLEAN
  /\ tg_up = TRUE
  /\ SENDER_DISPLAY_CACHE = [i \in SenderIds |-> NoEntry]
  /\ now = 0
  /\ loaded_from = NoLoad
  /\ reload_response = "none"
  /\ boot = Booted
  /\ SHUTDOWN = FALSE
  /\ main_pc = "serving"
  /\ tg_silent = FALSE
  /\ ident = Unattributed(None)
  /\ helper = NoHelper

Burst ==
  /\ Started
  /\ \E e \in 1..MaxBurst : message_handler(e, BurstEvent(e))

\* A pending notify shares no state with the permit-holding tasks, so it is
\* run first: any other order reaches the same permit states.
NotifyPending == \E e \in EventIds : tasks[e].notify = "created"

PoolNotify == \E e \in EventIds : notify_new_message_async(e)

PoolTask ==
  /\ ~NotifyPending
  /\ \E e \in EventIds :
       AiAcquire(e) \/ AiPost(e) \/ AiRelay(e) \/ AlertAcquire(e) \/ AlertPost(e)

NextPool == StartupLoad \/ (~NotifyPending /\ Burst) \/ PoolNotify \/ PoolTask

SpecPool == InitPool /\ [][NextPool]_vars

\* ------------------------------------------------------------------------
\* Dispatch properties
\* ------------------------------------------------------------------------
Returned(e) == h[e].pc = "done"

NothingDispatched(e) ==
  /\ h[e].matched_keywords = <<>>
  /\ ~h[e].saved
  /\ tasks[e] = NoTasks
  /\ \A d \in logs : d.id # e

\* C2: an event whose channel id is not in a non-empty published allow-list
\* gets no matched keywords, no persist and no notify, alert or AI task.
C2_FilteredChannelNoDispatch ==
  \A e \in EventIds :
    /\ (Returned(e) /\ h[e].outcome # "empty") => h[e].seen_channels = MONITORED_CHANNELS_SET
    /\ (Returned(e) /\ h[e].seen_channels # {} /\ h[e].ev.chan \notin h[e].seen_channels)
         => NothingDispatched(e)

\* a message containing the alert keyword, from the trigger user, in a
\* channel outside the allow-list
C2_Witness ==
  \E e \in EventIds :
    /\ Returned(e)
    /\ h[e].seen_channels # {} /\ h[e].ev.chan \notin h[e].seen_channels
    /\ h[e].ev.text = <<"b">> /\ h[e].ev.sender = TriggerSender

NothingMatched(e) ==
  /\ Handled(e)
  /\ MonitorMatches(e) = <<>>
  /\ h[e].matched_keywords = <<>>
  /\ h[e].alert_keyword = None

\* C6 as stated: nothing matched and log_all_messages on gives one persist
\* with an empty keyword list, no alert push and no AI trigger, whoever the
\* sender is.
C6_Original ==
  \A e \in EventIds : (NothingMatched(e) /\ h[e].config.log_all_messages) =>
    /\ h[e].saved /\ h[e].saved_keywords = <<>>
    /\ tasks[e].alert = "none"
    /\ tasks[e].ai = "none"

\* C6 amended: nothing matched and log_all_messages on gives one persist
\* with an empty keyword list and no alert push; the AI trigger is created
\* exactly when the sender is an AI-trigger user and the persist returned a
\* record id.
C6_LogAllPersistNoAlert ==
  \A e \in EventIds : (NothingMatched(e) /\ h[e].config.log_all_messages) =>
    /\ h[e].saved /\ h[e].saved_keywords = <<>>
    /\ h[e].log_id # 0 => \E d \in logs : d.id = e /\ d.keywords = <<>> /\ ~d.alerted
    /\ tasks[e].alert = "none"
    /\ tasks[e].ai # "none" <=> (h[e].is_trigger_user /\ h[e].log_id # 0)

C6_Witness ==
  \E e \in EventIds :
    /\ NothingMatched(e) /\ h[e].config.log_all_messages
    /\ h[e].saved /\ h[e].log_id # 0
    /\ tasks[e].ai # "none"

\* C7: at most AI_CONCURRENCY AI calls and at most ALERT_CONCURRENCY alert
\* pushes are in progress; the permits of each pool are exactly those not
\* held by its own tasks, and a waiting task of either kind enters as soon as
\* its own pool has a free permit, whatever the state of the other pool.
C7_Ceilings ==
  /\ Cardinality(AiInProgress) <= AI_CONCURRENCY
  /\ Cardinality(AlertInProgress) <= ALERT_CONCURRENCY
  /\ ai_semaphore = AI_CONCURRENCY - Cardinality(AiInProgress)
  /\ alert_semaphore = ALERT_CONCURRENCY - Cardinality(AlertInProgress)
  /\ \A e \in EventIds :
       /\ (tasks[e].alert = "created" /\ Cardinality(AlertInProgress) < ALERT_CONCURRENCY)
            => ENABLED AlertAcquire(e)
       /\ (tasks[e].ai = "created" /\ Cardinality(AiInProgress) < AI_CONCURRENCY)
            => ENABLED AiAcquire(e)

\* both pools are full and a task of each kind is waiting
C7_Witness ==
  /\ Cardinality(AiInProgress) = AI_CONCURRENCY
  /\ Cardinality(AlertInProgress) = ALERT_CONCURRENCY
  /\ \E e \in EventIds : tasks[e].ai = "created"
  /\ \E e \in EventIds : tasks[e].alert = "created"

\* C9 as stated: whatever fails, persist included, every task the match
\* result warrants is created.
C9_Original ==
  \A e \in EventIds : (Returned(e) /\ h[e].saved) =>
    /\ tasks[e].notify # "none"
    /\ h[e].is_trigger_user => tasks[e].ai # "none"
    /\ h[e].alert_keyword # None => tasks[e].alert # "none"

\* C9 amended: the alert push is created whatever the persist returned, and
\* notify and the AI trigger are created exactly when the persist returned a
\* record id; a created task runs whatever happened to the other tasks of
\* the event.
C9_TasksIndependent ==
  \A e \in EventIds : (Returned(e) /\ h[e].saved) =>
    /\ tasks[e].notify # "none" <=> h[e].log_id # 0
    /\ tasks[e].ai # "none" <=> (h[e].is_trigger_user /\ h[e].log_id # 0)
    /\ tasks[e].alert # "none" <=> h[e].alert_keyword # None
    /\ tasks[e].notify = "created" => ENABLED notify_new_message_async(e)
    /\ (tasks[e].alert = "created" /\ alert_semaphore > 0) => ENABLED AlertAcquire(e)
    /\ tasks[e].alert = "running" => ENABLED AlertPost(e)
    /\ (tasks[e].ai = "created" /\ ai_semaphore > 0) => ENABLED AiAcquire(e)
    /\ tasks[e].ai = "running" => ENABLED AiPost(e)
    /\ tasks[e].ai = "relay" => ENABLED AiRelay(e)

\* the persist failed and the alert push of the same event was sent
C9_Witness ==
  \E e \in EventIds :
    /\ Returned(e) /\ h[e].saved /\ h[e].log_id = 0
    /\ h[e].is_trigger_user
    /\ tasks[e].alert = "ok"

\* C10: the record persisted for an event stays in the store unchanged
\* whatever happens to its alert push, and the alert push of an alerting
\* event is created and can be sent whatever the state of its AI trigger.
C10_AlertFailureIsolated ==
  \A e \in EventIds :
    /\ h[e].log_id # 0 =>
         LogDoc(e, h[e].ev, h[e].sender, h[e].saved_keywords) \in logs
    /\ (Returned(e) /\ h[e].alert_keyword # None) => tasks[e].alert # "none"
    /\ (tasks[e].alert = "created" /\ Cardinality(AlertInProgress) < ALERT_CONCURRENCY)
         => ENABLED AlertAcquire(e)
    /\ tasks[e].alert = "running" => ENABLED AlertPost(e)

\* an alert push has failed with its record in the store, and an event
\* whose AI trigger waits for a permit has had its alert push sent
C10_Witness ==
  /\ \E e \in EventIds : tasks[e].alert = "failed" /\ \E d \in logs : d.id = e
  /\ \E e \in EventIds :
       /\ tasks[e].ai = "created" /\ Cardinality(AiInProgress) = AI_CONCURRENCY
       /\ tasks[e].alert \in {"ok", "failed"}

\* ------------------------------------------------------------------------
\* load_config_sync on an executor thread: one step per access to the file
\* or to a global, so that the event loop and the other loader thread can
\* run between any two of them
\* ------------------------------------------------------------------------
Others == <<h, tasks, sems, logs, env, idcache, reloads, lifecycle>>

\* config_reloader_task wakes up, or POST /api/internal/config/reload arrives
LdStart(l) ==
  /\ Started
  /\ l = "poll" => ~SHUTDOWN
  /\ ld[l].pc = "idle"
  /\ ld' = [ld EXCEPT ![l] = [IdleThread EXCEPT !.pc = "stat"]]
  /\ UNCHANGED <<fs, globals, Others>>

\* os.path.exists / isdir / getmtime
LdStat(l) ==
  /\ ld[l].pc = "stat"
  /\ ld' = [ld EXCEPT ![l] =
              IF fs.kind \in {"missing", "dir"} THEN [@ EXCEPT !.pc = "default_cache"]
              ELSE [@ EXCEPT !.pc = "compare", !.mtime = fs.mtime]]
  /\ UNCHANGED <<fs, globals, Others>>

\* CONFIG_CACHE = default_config() of the missing-file and directory branches
LdDefaultCache(l) ==
  /\ ld[l].pc = "default_cache"
  /\ CONFIG_CACHE' = default_config
  /\ ld' = [ld EXCEPT ![l].pc = "default_mtime"]
  /\ UNCHANGED <<fs, CONFIG_MTIME, COMPILED_ALERT_REGEX, KEYWORDS_LC, ALERT_KEYWORDS_LC,
                 MONITORED_CHANNELS_SET, Others>>

LdDefaultMtime(l) ==
  /\ ld[l].pc = "default_mtime"
  /\ CONFIG_MTIME' = 0
  /\ ld' = [ld EXCEPT ![l].pc = "default_regex"]
  /\ UNCHANGED <<fs, CONFIG_CACHE, COMPILED_ALERT_REGEX, KEYWORDS_LC, ALERT_KEYWORDS_LC,
                 MONITORED_CHANNELS_SET, Others>>

LdDefaultRegex(l) ==
  /\ ld[l].pc \in {"default_regex", "except_regex"}
  /\ COMPILED_ALERT_REGEX' = <<>>
  /\ ld' = [ld EXCEPT ![l] = IdleThread]
  /\ UNCHANGED <<fs, CONFIG_CACHE, CONFIG_MTIME, KEYWORDS_LC, ALERT_KEYWORDS_LC,
                 MONITORED_CHANNELS_SET, Others>>

\* `if CONFIG_CACHE and mtime == CONFIG_MTIME: return`
LdCompare(l) ==
  /\ ld[l].pc = "compare"
  /\ ld' = [ld EXCEPT ![l] =
              IF CONFIG_CACHE.nonempty /\ ld[l].mtime = CONFIG_MTIME THEN IdleThread
              ELSE [@ EXCEPT !.pc = "read"]]
  /\ UNCHANGED <<fs, globals, Others>>

\* open + json.load + defaults + normalize_list; raises on a source that is
\* by now absent, a directory or malformed
LdRead(l) ==
  /\ ld[l].pc = "read"
  /\ ld' = [ld EXCEPT ![l] =
              IF fs.kind = "valid"
              THEN [@ EXCEPT !.pc = "publish_cache", !.base = NormalizedConfig(fs.cfg)]
              ELSE [@ EXCEPT !.pc = "except_cache"]]
  /\ UNCHANGED <<fs, globals, Others>>

\* CONFIG_CACHE = default_config() of the except clause
LdExceptCache(l) ==
  /\ ld[l].pc = "except_cache"
  /\ CONFIG_CACHE' = default_config
  /\ ld' = [ld EXCEPT ![l].pc = "except_regex"]
  /\ UNCHANGED <<fs, CONFIG_MTIME, COMPILED_ALERT_REGEX, KEYWORDS_LC, ALERT_KEYWORDS_LC,
                 MONITORED_CHANNELS_SET, Others>>

\* CONFIG_CACHE = base
LdPublishCache(l) ==
  /\ ld[l].pc = "publish_cache"
  /\ CONFIG_CACHE' = ld[l].base
  /\ ld' = [ld EXCEPT ![l].pc = "publish_mtime"]
  /\ UNCHANGED <<fs, CONFIG_MTIME, COMPILED_ALERT_REGEX, KEYWORDS_LC, ALERT_KEYWORDS_LC,
                 MONITORED_CHANNELS_SET, Others>>

\* CONFIG_MTIME = mtime
LdPublishMtime(l) ==
  /\ ld[l].pc = "publish_mtime"
  /\ CONFIG_MTIME' = ld[l].mtime
  /\ ld' = [ld EXCEPT ![l].pc = "reset_regex"]
  /\ UNCHANGED <<fs, CONFIG_CACHE, COMPILED_ALERT_REGEX, KEYWORDS_LC, ALERT_KEYWORDS_LC,
                 MONITORED_CHANNELS_SET, Others>>

\* patterns = CONFIG_CACHE.get("alert_regex"); COMPILED_ALERT_REGEX = []
LdResetRegex(l) ==
  /\ ld[l].pc = "reset_regex"
  /\ COMPILED_ALERT_REGEX' = <<>>
  /\ ld' = [ld EXCEPT ![l] = [@ EXCEPT !.pc = "compile", !.patterns = CONFIG_CACHE.alert_regex,
                                       !.i = 1]]
  /\ UNCHANGED <<fs, CONFIG_CACHE, CONFIG_MTIME, KEYWORDS_LC, ALERT_KEYWORDS_LC,
                 MONITORED_CHANNELS_SET, Others>>

\* one turn of the compile loop: COMPILED_ALERT_REGEX.append(re.compile(p)),
\* or the pattern is skipped; the list appended to is the global of the moment
LdCompile(l) ==
  /\ ld[l].pc = "compile"
  /\ IF ld[l].i > Len(ld[l].patterns)
     THEN /\ ld' = [ld EXCEPT ![l].pc = "publish_kw"]
          /\ UNCHANGED COMPILED_ALERT_REGEX
     ELSE /\ ld' = [ld EXCEPT ![l].i = @ + 1]
          /\ COMPILED_ALERT_REGEX' =
               IF CompileOk(ld[l].patterns[ld[l].i])
               THEN Append(COMPILED_ALERT_REGEX, ld[l].patterns[ld[l].i])
               ELSE COMPILED_ALERT_REGEX
  /\ UNCHANGED <<fs, CONFIG_CACHE, CONFIG_MTIME, KEYWORDS_LC, ALERT_KEYWORDS_LC,
                 MONITORED_CHANNELS_SET, Others>>

\* KEYWORDS_LC = [...]
LdPublishKeywords(l) ==
  /\ ld[l].pc = "publish_kw"
  /\ KEYWORDS_LC' = LowerAll(CONFIG_CACHE.keywords)
  /\ ld' = [ld EXCEPT ![l].pc = "publish_akw"]
  /\ UNCHANGED <<fs, CONFIG_CACHE, CONFIG_MTIME, COMPILED_ALERT_REGEX, ALERT_KEYWORDS_LC,
                 MONITORED_CHANNELS_SET, Others>>

\* ALERT_KEYWORDS_LC = [...]
LdPublishAlertKeywords(l) ==
  /\ ld[l].pc = "publish_akw"
  /\ ALERT_KEYWORDS_LC' = LowerAll(CONFIG_CACHE.alert_keywords)
  /\ ld' = [ld EXCEPT ![l].pc = "publish_channels"]
  /\ UNCHANGED <<fs, CONFIG_CACHE, CONFIG_MTIME, COMPILED_ALERT_REGEX, KEYWORDS_LC,
                 MONITORED_CHANNELS_SET, Others>>

\* MONITORED_CHANNELS_SET = set(...)
LdPublishChannels(l) ==
  /\ ld[l].pc = "publish_channels"
  /\ MONITORED_CHANNELS_SET' = SeqToSet(CONFIG_CACHE.channels)
  /\ ld' = [ld EXCEPT ![l] = IdleThread]
  /\ UNCHANGED <<fs, CONFIG_CACHE, CONFIG_MTIME, COMPILED_ALERT_REGEX, KEYWORDS_LC,
                 ALERT_KEYWORDS_LC, Others>>

LoaderStep(l) ==
  \/ LdStart(l)
  \/ LdStat(l)
  \/ LdDefaultCache(l)
  \/ LdDefaultMtime(l)
  \/ LdDefaultRegex(l)
  \/ LdCompare(l)
  \/ LdRead(l)
  \/ LdExceptCache(l)
  \/ LdPublishCache(l)
  \/ LdPublishMtime(l)
  \/ LdResetRegex(l)
  \/ LdCompile(l)
  \/ LdPublishKeywords(l)
  \/ LdPublishAlertKeywords(l)
  \/ LdPublishChannels(l)

\* ------------------------------------------------------------------------
\* message_handler as a coroutine: one step per await, and one step per
\* read of a rule global, between which a loader thread can run
\* ------------------------------------------------------------------------
HOthers == <<fs, globals, ld, sems, env, now, reloads, lifecycle>>

\* up to `chat = await event.get_chat()`: config is read here
HStart(e, ev) ==
  /\ h[e].pc = "idle"
  /\ \A d \in 1..(e - 1) : h[d].pc # "idle"
  /\ h' = [h EXCEPT ![e] =
             IF ev.text = <<>>
             THEN [@ EXCEPT !.pc = "done", !.ev = ev, !.outcome = "empty",
                            !.config = CacheOrDefault(CONFIG_CACHE)]
             ELSE [@ EXCEPT !.pc = "get_chat", !.ev = ev,
                            !.config = CacheOrDefault(CONFIG_CACHE)]]
  /\ UNCHANGED <<tasks, logs, SENDER_DISPLAY_CACHE, HOthers>>

\* the channel filter, up to `await event.get_sender()`
HFilter(e) ==
  /\ h[e].pc = "get_chat"
  /\ h' = [h EXCEPT ![e] =
             IF ChannelRejected(MONITORED_CHANNELS_SET, h[e].ev.chan)
             THEN [@ EXCEPT !.pc = "done", !.outcome = "rejected",
                            !.seen_channels = MONITORED_CHANNELS_SET]
             ELSE [@ EXCEPT !.pc = "get_sender", !.seen_channels = MONITORED_CHANNELS_SET]]
  /\ UNCHANGED <<tasks, logs, SENDER_DISPLAY_CACHE, HOthers>>

\* the sender is resolved, the AI-trigger flag is set and KEYWORDS_LC is scanned
HKeywords(e) ==
  /\ h[e].pc = "get_sender"
  /\ LET rs == ResolveSender(SENDER_DISPLAY_CACHE, now, h[e].ev, ChannelName)
         sender == rs.sender
     IN /\ SENDER_DISPLAY_CACHE' = rs.cache
        /\ h' = [h EXCEPT ![e] =
                IF TriggerRaises(h[e].config, rs.sender_entity.id)
                THEN [@ EXCEPT !.pc = "done", !.outcome = "raised", !.sender = sender,
                               !.cached_hit = rs.cached_hit, !.lookups = rs.lookups,
                               !.resolved = rs.resolved, !.at = now]
                ELSE
                [@ EXCEPT !.pc = "alert_keywords", !.sender = sender,
                          !.cached_hit = rs.cached_hit, !.lookups = rs.lookups,
                          !.resolved = rs.resolved, !.at = now,
                          !.is_trigger_user = IsTriggerUser(h[e].config, rs.sender_entity, sender),
                          !.seen_kw = KEYWORDS_LC,
                          !.matched_keywords =
                             MatchKeywords(h[e].config.keywords, KEYWORDS_LC,
                                           Lower(h[e].ev.text))]]
  /\ UNCHANGED <<tasks, logs, HOthers>>

\* ALERT_KEYWORDS_LC is scanned
HAlertKeywords(e) ==
  /\ h[e].pc = "alert_keywords"
  /\ LET r == MatchAlertKeyword(h[e].matched_keywords, h[e].config.alert_keywords,
                                ALERT_KEYWORDS_LC, Lower(h[e].ev.text))
     IN h' = [h EXCEPT ![e] =
                [@ EXCEPT !.pc = "alert_regex", !.seen_akw = ALERT_KEYWORDS_LC,
                          !.matched_keywords = r.matched_keywords,
                          !.alert_keyword = r.alert_keyword]]
  /\ UNCHANGED <<tasks, logs, SENDER_DISPLAY_CACHE, HOthers>>

\* COMPILED_ALERT_REGEX is scanned; then `log_id = await save_log_async(...)`
\* is entered, or the handler returns with nothing to log
HAlertRegex(e) ==
  /\ h[e].pc = "alert_regex"
  /\ LET r == MatchAlertRegex([matched_keywords |-> h[e].matched_keywords,
                               alert_keyword |-> h[e].alert_keyword],
                              COMPILED_ALERT_REGEX, h[e].ev.text)
         save == ShouldSave(r.matched_keywords, h[e].config.log_all_messages)
     IN h' = [h EXCEPT ![e] =
                [@ EXCEPT !.pc = IF save THEN "await_save" ELSE "done",
                          !.outcome = IF save THEN "handled" ELSE "unlogged",
                          !.seen_rx = COMPILED_ALERT_REGEX,
                          !.matched_keywords = r.matched_keywords,
                          !.alert_keyword = r.alert_keyword,
                          !.saved = save,
                          !.inserts = IF save THEN @ + 1 ELSE @,
                          !.saved_keywords = IF save THEN r.matched_keywords ELSE <<>>]]
  /\ UNCHANGED <<tasks, logs, SENDER_DISPLAY_CACHE, HOthers>>

\* mutant: the handler awaits the tasks it has created instead of returning
HSaved_AwaitTasks(e) ==
  /\ h[e].pc = "await_save"
  /\ LET log_id == IF db_up THEN e ELSE 0
     IN /\ h' = [h EXCEPT ![e] = [@ EXCEPT !.pc = "await_tasks", !.log_id = log_id]]
        /\ logs' = IF db_up
                   THEN logs \cup {LogDoc(e, h[e].ev, h[e].sender, h[e].saved_keywords)}
                   ELSE logs
        /\ tasks' = [tasks EXCEPT ![e] =
                       CreatedTasks(log_id, h[e].is_trigger_user, h[e].alert_keyword)]
  /\ UNCHANGED <<SENDER_DISPLAY_CACHE, HOthers>>

\* insert_one has answered: the handler resumes with log_id, creates the
\* tasks and returns
HSaved(e) ==
  /\ h[e].pc = "await_save"
  /\ LET log_id == IF db_up THEN e ELSE 0
     IN /\ h' = [h EXCEPT ![e] = [@ EXCEPT !.pc = "done", !.log_id = log_id]]
        /\ logs' = IF db_up
                   THEN logs \cup {LogDoc(e, h[e].ev, h[e].sender, h[e].saved_keywords)}
                   ELSE logs
        /\ tasks' = [tasks EXCEPT ![e] =
                       CreatedTasks(log_id, h[e].is_trigger_user, h[e].alert_keyword)]
  /\ UNCHANGED <<SENDER_DISPLAY_CACHE, HOthers>>

HandlerStep(e) ==
  \/ HFilter(e)
  \/ HKeywords(e)
  \/ HAlertKeywords(e)
  \/ HAlertRegex(e)
  \/ HSaved(e)

\* ------------------------------------------------------------------------
\* Spec: reloads on two threads interleaved with the handler coroutines
\* ------------------------------------------------------------------------
RulesV1 ==
  SrcCfg(JList(<<<<"a">>>>), JList(<<<<"b">>>>), JList(<<<<"A">>>>), JList(<<<<"1">>>>),
         TRUE, TRUE, <<<<"7">>>>)
RulesV2 ==
  SrcCfg(JList(<<<<"b">>>>), JList(<<<<"a">>>>), JList(<<<<"(">>, <<"b">>, <<"A", "b">>>>), JNull,
         TRUE, FALSE, <<>>)

ReloadEvents ==
  {[text |-> <<"A", "b">>, chan |-> <<"1">>, sender |-> TriggerSender, from_id |-> FALSE, fails |-> {}]}

\* the operator rewrites, removes or damages the rule source
SourceChange ==
  /\ Started
  /\ fs.mtime < MaxMtime
  /\ \E f \in {ValidSource(RulesV1, fs.mtime + 1), ValidSource(RulesV2, fs.mtime + 1),
               [MissingSource EXCEPT !.mtime = fs.mtime + 1],
               DirSource(fs.mtime + 1), MalformedSource(fs.mtime + 1)} :
       /\ f.kind # fs.kind \/ f.cfg # fs.cfg
       /\ fs' = f
  /\ UNCHANGED <<globals, ld, Others>>

Init == InitWith(ValidSource(RulesV1, 1))

Receive == Started /\ \E e \in 1..MaxEvents, ev \in ReloadEvents : HStart(e, ev)

Handle == \E e \in 1..MaxEvents : HandlerStep(e)

Reload == \E l \in Threads : LoaderStep(l)

Next ==
  \/ StartupLoad
  \/ SourceChange
  \/ Reload
  \/ Receive
  \/ Handle

Spec == Init /\ [][Next]_vars

\* the handler of e has read every rule global
Classifying(e) ==
  /\ h[e].pc \in {"await_save", "done"}
  /\ h[e].outcome \in {"handled", "unlogged"}

\* C1: the config dict, the lowercased keyword lists, the compiled patterns
\* and the channel set that one handler reads all belong to one load: the
\* lists are the ones derived from the config dict it holds, with no other
\* version and no half-built pattern list among them.
C1_SingleLoadPerMessage ==
  \A e \in EventIds : Classifying(e) =>
    /\ h[e].seen_channels = SeqToSet(h[e].config.channels)
    /\ h[e].seen_kw = LowerAll(h[e].config.keywords)
    /\ h[e].seen_akw = LowerAll(h[e].config.alert_keywords)
    /\ h[e].seen_rx = CompilePatterns(h[e].config.alert_regex)

\* ------------------------------------------------------------------------
\* SpecHandler: the handler coroutine with its awaits, the tasks it creates
\* and a store and an API that fail
\* ------------------------------------------------------------------------
HandlerEvents ==
  {[text |-> t, chan |-> <<"1">>, sender |-> s, from_id |-> FALSE, fails |-> {}] :
     t \in {<<"c">>, <<"b">>}, s \in {TriggerSender, OtherSender}}

InitHandler == InitWith(ValidSource(GuardedRules, 1))

Arrive == Started /\ \E e \in 1..MaxEvents, ev \in HandlerEvents : HStart(e, ev)

NextHandler ==
  \/ StartupLoad
  \/ Arrive
  \/ Handle
  \/ RunTask
  \/ StoreFlips
  \/ ApiFlips

SpecHandler == InitHandler /\ [][NextHandler]_vars

\* C8 as stated: the handler is never suspended on a side effect it issued.
C8_Original == \A e \in EventIds : ~(h[e].saved /\ h[e].pc = "await_save")

\* C8 amended: the handler is suspended on the persist alone, before any
\* task exists, and returns knowing its result; notify, alert push and AI
\* trigger exist only once the handler has returned, so none is awaited.
C8_OnlyPersistAwaited ==
  \A e \in EventIds :
    /\ tasks[e] # NoTasks => h[e].pc = "done"
    /\ h[e].pc = "await_save" =>
         (h[e].saved /\ tasks[e] = NoTasks /\ \A d \in logs : d.id # e)
    /\ (h[e].pc = "done" /\ h[e].saved) => (h[e].log_id # 0 <=> \E d \in logs : d.id = e)
    /\ h[e].saved => h[e].pc \in {"await_save", "done"}

\* the handler has returned while its notify, alert and AI tasks are pending
C8_Witness ==
  \E e \in EventIds :
    /\ h[e].pc = "done" /\ h[e].saved
    /\ tasks[e].notify = "created"
    /\ tasks[e].alert \in {"created", "running"}
    /\ tasks[e].ai \in {"created", "running"}

\* ------------------------------------------------------------------------
\* Side effects of one event
\* ------------------------------------------------------------------------
\* C11: for each event at most one insert, one notify post, one alert push,
\* one AI-analysis post and one send of its summary are issued, failed calls
\* included, and the store never holds a second record of the event.
C11_EachSideEffectOnce ==
  \A e \in EventIds :
    /\ h[e].inserts <= 1
    /\ tasks[e].posts.notify <= 1
    /\ tasks[e].posts.alert <= 1
    /\ tasks[e].posts.ai <= 1
    /\ tasks[e].posts.send <= 1
    /\ Cardinality({d \in logs : d.messageId = e}) <= 1
    /\ tasks[e].notify = "failed" => tasks[e].posts.notify = 1
    /\ tasks[e].alert = "failed" => tasks[e].posts.alert = 1
    /\ tasks[e].ai = "failed" => tasks[e].posts.ai = 1

\* the record of an event is stored and its notify, alert push and AI
\* analysis have all failed
C11_Witness ==
  \E e \in EventIds :
    /\ h[e].inserts = 1 /\ h[e].log_id # 0
    /\ tasks[e].notify = "failed"
    /\ tasks[e].alert = "failed"
    /\ tasks[e].ai = "failed"

\* ------------------------------------------------------------------------
\* SpecSequence: messages handled one after the other, each once the tasks
\* of the one before have ended, with a store, an API and a transport that
\* fail
\* ------------------------------------------------------------------------
SequenceEvents ==
  {[text |-> <<"b">>, chan |-> <<"1">>, sender |-> TriggerSender, from_id |-> FALSE, fails |-> {}],
   [text |-> <<"c">>, chan |-> <<"1">>, sender |-> OtherSender, from_id |-> FALSE, fails |-> {}]}

Settled(e) ==
  /\ h[e].pc = "done"
  /\ tasks[e].notify \in {"none", "ok", "failed"}
  /\ tasks[e].ai \in {"none", "ok", "failed"}
  /\ tasks[e].alert \in {"none", "ok", "failed"}

InitSequence == InitWith(ValidSource(BurstRules, 1))

NextMessage ==
  /\ Started
  /\ \E e \in 1..MaxSeq, ev \in SequenceEvents :
       /\ \A d \in 1..(e - 1) : Settled(d)
       /\ message_handler(e, ev)

NextSequence ==
  \/ StartupLoad
  \/ NextMessage
  \/ RunTask
  \/ StoreFlips
  \/ ApiFlips
  \/ TransportFlips

SpecSequence == InitSequence /\ [][NextSequence]_vars

\* C12: whatever calls failed before, a message is classified by the
\* published rules alone, its record is submitted once, its tasks are those
\* its own match result and record id warrant, every permit taken by a call
\* that failed is back, and every created task can run: no failure is
\* carried over to a later message.
C12_FailuresContained ==
  /\ ai_semaphore = AI_CONCURRENCY - Cardinality(AiInProgress)
  /\ alert_semaphore = ALERT_CONCURRENCY - Cardinality(AlertInProgress)
  /\ \A e \in EventIds : Returned(e) =>
       /\ h[e].outcome = "handled" /\ h[e].inserts = 1
       /\ h[e].matched_keywords =
            (IF KwInText(<<"a">>, e) THEN <<<<"a">>>> ELSE <<>>)
            \o (IF KwInText(<<"b">>, e) THEN <<<<"b">>>> ELSE <<>>)
       /\ h[e].alert_keyword = (IF KwInText(<<"b">>, e) THEN <<"b">> ELSE None)
       /\ h[e].is_trigger_user <=> h[e].ev.sender.id = <<"7">>
       /\ h[e].log_id # 0 <=> \E d \in logs : d.id = e
       /\ tasks[e].notify # "none" <=> h[e].log_id # 0
       /\ tasks[e].ai # "none" <=> (h[e].is_trigger_user /\ h[e].log_id # 0)
       /\ tasks[e].alert # "none" <=> h[e].alert_keyword # None
       /\ tasks[e].notify = "created" => ENABLED notify_new_message_async(e)
       /\ tasks[e].alert = "created" => ENABLED AlertAcquire(e)
       /\ tasks[e].ai = "created" => ENABLED AiAcquire(e)

\* every call made for one message failed (the AI one at the send of its
\* summary), another message lost its record, and a later message went
\* through with every call answered
C12_Witness ==
  \E e1, e2 \in EventIds :
    /\ e1 < e2
    /\ \/ /\ tasks[e1].notify = "failed" /\ tasks[e1].alert = "failed"
          /\ tasks[e1].ai = "failed" /\ tasks[e1].posts.send = 1
       \/ Returned(e1) /\ h[e1].log_id = 0 /\ tasks[e1].alert = "failed"
    /\ Returned(e2) /\ h[e2].log_id # 0
    /\ tasks[e2].notify = "ok" /\ tasks[e2].alert = "ok" /\ tasks[e2].ai = "ok"

\* ------------------------------------------------------------------------
\* SpecReload: the poll reloader and the push endpoint, each load running
\* alone, over a source that is rewritten, removed or damaged
\* ------------------------------------------------------------------------

\* one load_config_sync call from start to return, made by `by`; n counts
\* the calls that found the source as the call before them did
AtomicReload(by) ==
  /\ Started
  /\ SetGlobals(load_config_sync(CurrentGlobals, fs))
  /\ loaded_from' = [by |-> by, source |-> fs,
                     n |-> IF loaded_from.source = fs
                           THEN (IF loaded_from.n < 2 THEN loaded_from.n + 1 ELSE 2)
                           ELSE 1]
  /\ UNCHANGED <<fs, ld, h, tasks, sems, logs, env, idcache, lifecycle>>

\* config_reloader_task: one turn of its loop
\* one cycle of `while not SHUTDOWN.is_set()`
PollReload == ~SHUTDOWN /\ AtomicReload("poll") /\ UNCHANGED reload_response

\* handle_config_reload: load_config_sync catches every exception itself, so
\* run_in_executor returns and the {"status": "ok"} response is sent
PushReload == AtomicReload("push") /\ reload_response' = "ok"

\* the source gets new content under the modification time it had (a write
\* within the timestamp granularity, or a copy that preserves the time)
SameTokenRewrite ==
  /\ Started
  /\ fs.kind = "valid"
  /\ \E r \in {RulesV1, RulesV2} :
       /\ r # fs.cfg
       /\ fs' = ValidSource(r, fs.mtime)
  /\ UNCHANGED <<globals, ld, Others>>

InitReload == InitWith(ValidSource(RulesV1, 1))

NextReload ==
  \/ StartupLoad
  \/ SourceChange
  \/ SameTokenRewrite
  \/ PollReload
  \/ PushReload

SpecReload == InitReload /\ [][NextReload]_vars

\* the latest load ran on the source as it is now
LoadedCurrent == loaded_from.by # "none" /\ loaded_from.source = fs

\* the rule set a first load of source f publishes
FreshGlobals(f) == load_config_sync(ImportGlobals, f)

\* C13: once a load has run on the source as it is, a further load leaves
\* every published global as it was, whether the source is valid, absent, a
\* directory or malformed.
C13_ReloadIdempotent ==
  LoadedCurrent => load_config_sync(CurrentGlobals, fs) = CurrentGlobals

\* two loads in a row have run on a malformed source that replaced a
\* published rule set
C13_Witness ==
  /\ LoadedCurrent /\ loaded_from.n = 2
  /\ fs.kind = "malformed"
  /\ CONFIG_CACHE = default_config /\ KEYWORDS_LC # <<>>

\* C14: after a push reload of a valid source, the published rule set is the
\* one of the source as it is, whatever its modification token.
C14_PushAlwaysRereads ==
  (LoadedCurrent /\ loaded_from.by = "push" /\ fs.kind = "valid")
    => CurrentGlobals = FreshGlobals(fs)

\* C15: the push endpoint answers success exactly when the source was read
\* and parsed.
C15_ResponseTellsOutcome ==
  (LoadedCurrent /\ loaded_from.by = "push")
    => (reload_response = "ok" <=> fs.kind = "valid")

\* C16: after a load that found the source absent, a directory or malformed,
\* the classifier works with the safe default: log_all_messages on, no
\* monitoring keyword, no alert keyword, no pattern, every channel.
C16_SafeDefaultPublished ==
  (LoadedCurrent /\ fs.kind # "valid") =>
    /\ CacheOrDefault(CONFIG_CACHE) = default_config
    /\ KEYWORDS_LC = <<>>
    /\ ALERT_KEYWORDS_LC = <<>>
    /\ COMPILED_ALERT_REGEX = <<>>
    /\ MONITORED_CHANNELS_SET = {}

PollStep == LoaderStep("poll")

\* a push request starts a load when it arrives
PushStep == LoaderStep("push")

\* a load that has started on the push thread goes on to its return
PushRuns == ld["push"].pc # "idle" /\ LoaderStep("push")

\* the first modification token is 0, so that the source can be rewritten
\* MaxMtime times
InitRefresh == InitWith(ValidSource(RulesV1, 0))

NextRefresh ==
  \/ StartupLoad
  \/ SourceChange
  \/ PollStep
  \/ PushStep

SpecRefresh ==
  /\ InitRefresh
  /\ [][NextRefresh]_vars
  /\ WF_vars(StartupLoad)
  /\ WF_vars(PollStep)
  /\ WF_vars(PushRuns)

\* the published config, keyword lists and channel set are those of the
\* source, and the compiled patterns are its patterns (in any order, with
\* or without repetitions)
PublishedCurrent ==
  LET fresh == FreshGlobals(fs)
  IN /\ CONFIG_CACHE = fresh.CONFIG_CACHE
     /\ KEYWORDS_LC = fresh.KEYWORDS_LC
     /\ ALERT_KEYWORDS_LC = fresh.ALERT_KEYWORDS_LC
     /\ MONITORED_CHANNELS_SET = fresh.MONITORED_CHANNELS_SET
     /\ SeqToSet(COMPILED_ALERT_REGEX) = SeqToSet(fresh.COMPILED_ALERT_REGEX)

\* C18: once the source has stopped changing and is valid, the published
\* rule set becomes the rule set of the source and stays so.
C18_EventuallyPublished == <>[](fs.kind = "valid") => <>[]PublishedCurrent

\* ------------------------------------------------------------------------
\* SpecSender: messages of two senders handled one after the other while
\* the clock advances; the sender block of message_handler and
\* _SENDER_DISPLAY_CACHE
\* ------------------------------------------------------------------------

\* sender 8 after a change of name
RenamedSender == [id |-> <<"8">>, username |-> None, first_name |-> <<"B">>, last_name |-> None]

\* event.message.from_id is set or not; sender 7 has a username and no names
SenderEvents ==
  {[text |-> t, chan |-> <<"1">>, sender |-> s, from_id |-> f, fails |-> {}] :
     t \in {<<"c">>, <<"b">>}, s \in {PlainSender, OtherSender, RenamedSender},
     f \in BOOLEAN}

\* time.time() moves on between two messages
Tick ==
  /\ now < MaxClock
  /\ now' = now + 1
  /\ UNCHANGED <<fs, globals, ld, h, tasks, sems, logs, env, SENDER_DISPLAY_CACHE, reloads, lifecycle>>

SenderMessage ==
  /\ Started
  /\ \E e \in 1..MaxMsgs, ev \in SenderEvents : message_handler(e, ev)

InitSender == InitWith(ValidSource(OpenRules, 1))

NextSender ==
  \/ StartupLoad
  \/ SenderMessage
  \/ Tick

SpecSender == InitSender /\ [][NextSender]_vars

\* C19: a message whose sender is found in the cache within the TTL makes
\* no get_entity and no GetFullUserRequest call.
C19_HitMakesNoLookup ==
  \A e \in EventIds : h[e].cached_hit => h[e].lookups = {}

\* C20: a name taken from the cache was computed from the sender's entity
\* at most SENDER_CACHE_TTL_SEC before the message that gets it.
C20_NameNotOlderThanTTL ==
  \A e \in EventIds : h[e].cached_hit => h[e].at - h[e].resolved <= SENDER_CACHE_TTL_SEC

\* C21: a message whose sender is not taken from the cache makes at most
\* one lookup against the transport client besides event.get_sender().
C21_OneLookupOnMiss ==
  \A e \in EventIds :
    (Returned(e) /\ ~h[e].cached_hit) => Cardinality(h[e].lookups) <= 1

\* ------------------------------------------------------------------------
\* SpecLookup: messages whose sender lookups raise in every combination
\* ------------------------------------------------------------------------
LookupEvents ==
  {[text |-> t, chan |-> <<"1">>, sender |-> s, from_id |-> f, fails |-> x] :
     t \in {<<"c">>, <<"b">>}, s \in {PlainSender, OtherSender, NoSender},
     f \in BOOLEAN, x \in SUBSET SenderCalls}

LookupMessage ==
  /\ Started
  /\ \E e \in 1..MaxEvents, ev \in LookupEvents : message_handler(e, ev)

InitLookup == InitWith(ValidSource(GuardedRules, 1))

NextLookup ==
  \/ StartupLoad
  \/ LookupMessage

SpecLookup == InitLookup /\ [][NextLookup]_vars

\* some call that was made for the sender of e returned
Answered(e) ==
  \/ "get_sender" \notin h[e].ev.fails
  \/ h[e].lookups \ h[e].ev.fails # {}

\* C22: whichever sender lookups raise, the message is classified and its
\* record submitted, and the sender shown is the full name if a call
\* returned one, else the @username if a call returned one, else the
\* sender id, else the channel name.
C22_LookupFailuresContained ==
  \A e \in EventIds : Returned(e) =>
    LET ev == h[e].ev
        p == ev.sender
        name == IF p.first_name # None /\ p.last_name # None
                THEN p.first_name \o <<" ">> \o p.last_name
                ELSE IF p.first_name # None THEN p.first_name ELSE p.last_name
    IN /\ h[e].outcome = "handled"
       /\ h[e].matched_keywords = (IF ev.text = <<"b">> THEN <<<<"b">>>> ELSE <<>>)
       /\ h[e].alert_keyword = (IF ev.text = <<"b">> THEN <<"b">> ELSE None)
       /\ h[e].inserts = 1
       /\ LogDoc(e, ev, h[e].sender, h[e].matched_keywords) \in logs
       /\ h[e].sender # None
       /\ ~h[e].cached_hit =>
            h[e].sender =
              IF Answered(e) /\ name # None THEN name
              ELSE IF Answered(e) /\ p.username # None THEN <<"@">> \o p.username
              ELSE IF p.id # None THEN p.id
              ELSE ChannelName

C22_Witness ==
  \E e \in EventIds :
    /\ Returned(e)
    /\ h[e].ev.fails = SenderCalls /\ h[e].ev.from_id
    /\ ~h[e].cached_hit
    /\ Cardinality(h[e].lookups) = 3
    /\ h[e].sender = <<"7">>
    /\ h[e].saved /\ h[e].matched_keywords = <<<<"b">>>>

\* ------------------------------------------------------------------------
\* SpecTrigger: the AI-trigger flag for rule sets with the trigger on and
\* off and trigger lists that name a sender in each way
\* ------------------------------------------------------------------------
TriggerLists ==
  {<<>>, <<<<"7">>>>, <<<<"@", "B">>>>, <<<<"x">>, <<"a">>>>, <<<<"c", "h">>>>,
   <<<<" ", "8", " ">>>>}

TriggerRules(on, users) ==
  SrcCfg(JList(<<<<"a">>>>), JList(<<<<"b">>>>), JList(<<>>), JNull, TRUE, on, users)

TriggerEvents ==
  {[text |-> t, chan |-> <<"1">>, sender |-> s, from_id |-> f, fails |-> {}] :
     t \in {<<"c">>, <<"b">>}, s \in {PlainSender, OtherSender, NoSender},
     f \in BOOLEAN}

TriggerMessage ==
  /\ Started
  /\ \E e \in 1..MaxEvents, ev \in TriggerEvents : message_handler(e, ev)

InitTrigger ==
  \E on \in BOOLEAN, users \in TriggerLists : InitWith(ValidSource(TriggerRules(on, users), 1))

NextTrigger ==
  \/ StartupLoad
  \/ TriggerMessage

SpecTrigger == InitTrigger /\ [][NextTrigger]_vars

\* the id, @username, full name and display string of the sender of e
Identities(e) ==
  LET p == h[e].ev.sender
  IN {x \in {p.id, IF p.username # None THEN <<"@">> \o p.username ELSE None,
             FullName(p), h[e].sender} : x # None}

\* C23 as stated: the flag is set exactly when the trigger is enabled and an
\* identity of the sender equals, ignoring case, an entry of the list; no
\* AI task without the trigger enabled.
C23_Original ==
  \A e \in EventIds : Returned(e) =>
    LET users == h[e].config.ai_trigger_users.val
    IN /\ h[e].is_trigger_user <=>
            /\ h[e].config.ai_trigger_enabled
            /\ \E i \in 1..Len(users), x \in Identities(e) : Lower(users[i]) = Lower(x)
       /\ ~h[e].config.ai_trigger_enabled => tasks[e].ai = "none"

\* C23 amended: the flag is set exactly when the trigger is enabled, the
\* sender has an id and an identity of the sender equals, ignoring case and
\* surrounding blanks, an entry of the list; no AI task without the flag.
C23_TriggerFlag ==
  \A e \in EventIds : Returned(e) =>
    LET users == h[e].config.ai_trigger_users.val
    IN /\ h[e].is_trigger_user <=>
            /\ h[e].config.ai_trigger_enabled
            /\ h[e].ev.sender.id # None
            /\ \E i \in 1..Len(users), x \in Identities(e) :
                 Lower(Strip(users[i])) = Lower(Strip(x))
       /\ ~h[e].is_trigger_user => tasks[e].ai = "none"
       /\ ~h[e].config.ai_trigger_enabled => tasks[e].ai = "none"

C23_Witness ==
  \E e \in EventIds :
    /\ Returned(e)
    /\ h[e].config.ai_trigger_enabled
    /\ h[e].config.ai_trigger_users = JList(<<<<"c", "h">>>>)
    /\ h[e].ev.sender = NoSender
    /\ h[e].sender = ChannelName
    /\ ~h[e].is_trigger_user
    /\ tasks[e].ai = "none"

\* ------------------------------------------------------------------------
\* SpecBoot: main() from client.connect() to the running service, with a
\* session file that is locked, or calls that fail otherwise, at any call
\* ------------------------------------------------------------------------
BootOthers == <<fs, globals, ld, h, tasks, sems, logs, env, idcache, reloads,
                SHUTDOWN, main_pc, tg_silent, ident, helper>>

\* await client.disconnect() and sys.exit(1), for the reason given
Leave(b, reason) ==
  [b EXCEPT !.phase = "exited", !.exit = "1", !.connected = FALSE, !.denied = reason]

\* the session is a StringSession, a file that exists, or a file that is
\* missing: main() leaves before the client has connected
SessionCheck ==
  /\ boot.phase = "session"
  /\ Started
  /\ \E session \in {"string", "file", "missing"} :
       boot' = IF session = "missing"
               THEN Leave(boot, "no_session")
               ELSE [boot EXCEPT !.phase = "connect"]
  /\ UNCHANGED BootOthers

\* client.start() returns; raises an RPC error of code 401, after which a
\* second start within 15 seconds of the file's last write succeeds
\* ("recovered") or does not; runs into the interactive prompt (EOFError);
\* or raises something else
StartOutcomes == {"ok", "recovered", "unregistered", "prompt", "error"}

\* mutant: the test `if not is_authorized` after the loop left out
StartAttempt_Unchecked(b, r) ==
  IF r \in {"ok", "recovered"}
  THEN [b EXCEPT !.is_authorized = TRUE, !.phase = "authorization"]
  ELSE IF r = "unregistered"
  THEN Leave(b, "unregistered")
  ELSE IF b.retry_count + 1 >= max_retries
  THEN [b EXCEPT !.retry_count = @ + 1, !.phase = "authorization"]
  ELSE [b EXCEPT !.retry_count = @ + 1]

\* the body of the start loop for one outcome of client.start(), and the
\* test of is_authorized that follows the loop; `except Exception as
\* rpc_error` is the first clause and takes every exception, EOFError too
StartAttempt(b, r) ==
  IF r \in {"ok", "recovered"}
  THEN [b EXCEPT !.is_authorized = TRUE, !.phase = "authorization"]
  ELSE IF r = "unregistered"
  THEN Leave(b, "unregistered")
  ELSE IF b.retry_count + 1 >= max_retries
  THEN Leave([b EXCEPT !.retry_count = @ + 1],
             IF r = "prompt" THEN "prompt" ELSE "start_failed")
  ELSE [b EXCEPT !.retry_count = @ + 1]

\* await client.connect() in its loop; an error that leaves the loop is
\* caught by `except Exception` of main, which ends with sys.exit(1)
Connect ==
  /\ boot.phase = "connect"
  /\ \E r \in Outcomes :
       LET st == RetryStep(boot.loops["connect"], boot.retry,
                           max_connect_retries, connect_retry_delay, r)
       IN boot' = [boot EXCEPT
                     !.loops["connect"] = st.loop,
                     !.retry = IF st.ctl = "continue" THEN st.retry ELSE 0,
                     !.phase = IF st.ctl = "continue" THEN "connect"
                               ELSE IF st.ctl = "break" THEN "is_authorized"
                               ELSE "exited",
                     !.connected = (st.ctl = "break"),
                     !.exit = IF st.ctl = "raise" THEN "1" ELSE "none"]
  /\ UNCHANGED BootOthers

\* is_authorized = await client.is_user_authorized(); an exception leaves
\* is_authorized False, and False sends main() into the start loop
IsUserAuthorized ==
  /\ boot.phase = "is_authorized"
  /\ \E r \in {"true", "false", "raise"} :
       boot' = IF r = "true"
               THEN [boot EXCEPT !.is_authorized = TRUE, !.phase = "authorization"]
               ELSE [boot EXCEPT !.phase = "verify"]
  /\ UNCHANGED BootOthers

\* one pass of `while retry_count < max_retries and not start_success`
VerifyStart ==
  /\ boot.phase = "verify"
  /\ \E r \in StartOutcomes : boot' = StartAttempt(boot, r)
  /\ UNCHANGED BootOthers

\* await client.get_me() of the authorization check; this loop leaves with
\* `break` where the others raise, and client.start() comes next
CheckAuthorization ==
  /\ boot.phase = "authorization"
  /\ \E r \in Outcomes :
       LET st == RetryStep(boot.loops["authorization"], boot.retry,
                           max_get_me_retries, get_me_retry_delay, r)
       IN boot' = [boot EXCEPT
                     !.loops["authorization"] = st.loop,
                     !.retry = IF st.ctl = "continue" THEN st.retry ELSE 0,
                     !.phase = IF st.ctl = "continue" THEN "authorization"
                               ELSE IF st.ctl = "break" THEN "get_me"
                               ELSE "start",
                     !.handler = (st.ctl = "break")]
  /\ UNCHANGED BootOthers

\* await client.start() after a get_me that did not succeed: the client is
\* started, or main ends with sys.exit(1)
ClientStart ==
  /\ boot.phase = "start"
  /\ \E r \in {"ok", "prompt", "error"} :
       boot' = IF r = "ok"
               THEN [boot EXCEPT !.phase = "get_me", !.handler = TRUE]
               ELSE Leave(boot, IF r = "prompt" THEN "prompt" ELSE "start_failed")
  /\ UNCHANGED BootOthers

\* await client.get_me() after add_event_handler; an error that leaves the
\* loop leaves main(), is logged by `except Exception` of __main__, and the
\* interpreter ends with status 0
GetMe ==
  /\ boot.phase = "get_me"
  /\ \E r \in Outcomes :
       LET st == RetryStep(boot.loops["get_me"], boot.retry,
                           max_get_me_retries, get_me_retry_delay, r)
       IN boot' = [boot EXCEPT
                     !.loops["get_me"] = st.loop,
                     !.retry = IF st.ctl = "continue" THEN st.retry ELSE 0,
                     !.phase = IF st.ctl = "continue" THEN "get_me"
                               ELSE IF st.ctl = "break" THEN "serving"
                               ELSE "exited",
                     !.http = (st.ctl = "break"),
                     !.reloader = (st.ctl = "break"),
                     !.exit = IF st.ctl = "raise" THEN "0" ELSE "none"]
  /\ UNCHANGED BootOthers

InitBoot == InitState(ValidSource(GuardedRules, 1), Booting)

\* a NewMessage update reaches the handler that add_event_handler registered
BootMessage ==
  /\ boot.handler
  /\ boot.connected
  /\ boot.phase \in {"get_me", "serving"}
  /\ \E ev \in {d \in DispatchEvents : d.chan = <<"1">> /\ d.sender = OtherSender} :
       message_handler(1, ev)

NextBoot ==
  \/ StartupLoad
  \/ SessionCheck
  \/ Connect
  \/ IsUserAuthorized
  \/ VerifyStart
  \/ CheckAuthorization
  \/ ClientStart
  \/ GetMe
  \/ BootMessage

SpecBoot == InitBoot /\ [][NextBoot]_vars

\* 2 + 4 + ... + 2k
RECURSIVE Sum(_)
Sum(ws) == IF ws = <<>> THEN 0 ELSE Head(ws) + Sum(Tail(ws))

\* C24: a loop that succeeded after k locked calls made k + 1 calls and
\* slept 2 * i seconds before call i + 1; two locked calls are 3 calls and
\* 2 + 4 seconds.
C24_LinearBackoff ==
  \A l \in Loops :
    LET lp == boot.loops[l]
        k == lp.attempts - 1
    IN lp.result = "success" =>
         /\ k < max_connect_retries
         /\ Len(lp.waits) = k
         /\ \A i \in 1..k : lp.waits[i] = connect_retry_delay * i
         /\ k = 2 => lp.attempts = 3 /\ Sum(lp.waits) = 6

C24_Witness ==
  \E l \in Loops :
    /\ boot.loops[l].result = "success"
    /\ boot.loops[l].attempts = 3
    /\ boot.loops[l].waits = <<2, 4>>

\* C25 as stated: in each of the three loops a call that fails with an
\* error other than a locked session is the last call of the loop, no wait
\* follows it, and the error ends main().
C25_Original ==
  \A l \in Loops :
    LET lp == boot.loops[l]
    IN /\ \A i \in 1..Len(lp.calls) :
            lp.calls[i] = "error" => i = Len(lp.calls) /\ lp.result = "error"
       /\ lp.result = "error" =>
            /\ Len(lp.waits) = lp.attempts - 1
            /\ boot.phase = "exited"

\* C25 amended: such a call is the last call of its loop and no wait follows
\* it; the connect loop and the last get_me loop end main() with the error,
\* the get_me loop of the authorization check goes on to client.start().
C25_OtherErrorsNotRetried ==
  \A l \in Loops :
    LET lp == boot.loops[l]
    IN /\ lp.attempts = Len(lp.calls)
       /\ \A i \in 1..Len(lp.calls) :
            lp.calls[i] = "error" => i = Len(lp.calls) /\ lp.result = "error"
       /\ lp.result = "error" =>
            /\ Len(lp.waits) = lp.attempts - 1
            /\ l \in {"connect", "get_me"} => boot.phase = "exited"
            /\ l = "authorization" => boot.phase \in {"start", "get_me", "serving", "exited"}

C25_Witness ==
  /\ boot.loops["authorization"].calls = <<"locked", "error">>
  /\ boot.loops["authorization"].waits = <<2>>
  /\ boot.phase = "start"

\* C26: no loop makes more than five calls; a session that stays locked
\* through five calls ends the connect loop and the last get_me loop with
\* a failure exit of the process, and sends the authorization check on to
\* client.start().
C26_BoundedAttempts ==
  \A l \in Loops :
    LET lp == boot.loops[l]
    IN /\ lp.attempts <= max_connect_retries
       /\ lp.result = "exhausted" =>
            /\ lp.attempts = max_connect_retries
            /\ l \in {"connect", "get_me"} => boot.phase = "exited" /\ boot.exit = "1"
            /\ l = "authorization" => boot.phase \in {"start", "get_me", "serving", "exited"}

\* ------------------------------------------------------------------------
\* SpecShutdown: the running service, the signal handler and the end of
\* main()
\* ------------------------------------------------------------------------
ShutOthers == <<fs, globals, ld, h, tasks, sems, logs, env, idcache, reloads, boot,
                tg_silent, ident, helper>>

\* _signal_handler: SIGINT or SIGTERM sets SHUTDOWN and does nothing else
Signal ==
  /\ main_pc = "serving"
  /\ Started
  /\ ~SHUTDOWN
  /\ SHUTDOWN' = TRUE
  /\ UNCHANGED <<main_pc, ShutOthers>>

\* the transport client is disconnected: run_until_disconnected returns and
\* the finally block of main sets SHUTDOWN, cancels the reloader, cleans the
\* HTTP runner up and closes http_session, without waiting for any task
Disconnected ==
  /\ main_pc = "serving"
  /\ Started
  /\ main_pc' = "stopped"
  /\ SHUTDOWN' = TRUE
  /\ UNCHANGED ShutOthers

\* the event loop runs handlers, tasks and the reloader while main() waits
ServeMessage == main_pc = "serving" /\ NextMessage
ServeTask == main_pc = "serving" /\ RunTask
ServeReload == main_pc = "serving" /\ Started /\ PollReload
ServeSourceChange == main_pc = "serving" /\ SourceChange

InitShutdown == InitWith(ValidSource(BurstRules, 0))

NextShutdown ==
  \/ StartupLoad
  \/ ServeSourceChange
  \/ ServeReload
  \/ ServeMessage
  \/ ServeTask
  \/ Signal
  \/ Disconnected

\* every step of the event loop that is ready is taken; when the transport
\* client gets disconnected is not up to the program
SpecShutdown ==
  /\ InitShutdown
  /\ [][NextShutdown]_vars
  /\ WF_vars(StartupLoad)
  /\ WF_vars(ServeTask)
  /\ WF_vars(ServeReload)

\* C27: once the shutdown signal has been received, main() comes to its end.
C27_ShutdownStops == SHUTDOWN ~> (main_pc = "stopped")

\* ------------------------------------------------------------------------
\* SpecTimeout: tasks that hold a permit while a collaborator stops
\* answering. A post to the API ends by its ClientTimeout whether the API
\* answers or not (AiPost, AlertPost); send_message has no timeout.
\* ------------------------------------------------------------------------
\* the transport client stops answering, for good
TransportSilent ==
  /\ ~tg_silent
  /\ tg_silent' = TRUE
  /\ UNCHANGED <<fs, globals, ld, h, tasks, sems, logs, env, idcache, reloads, boot,
                 SHUTDOWN, main_pc, ident, helper>>

TimeoutMessage ==
  /\ Started
  /\ \E e \in 1..MaxSeq, ev \in SequenceEvents : message_handler(e, ev)

InitTimeout == InitWith(ValidSource(BurstRules, 1))

NextTimeout ==
  \/ StartupLoad
  \/ TimeoutMessage
  \/ RunTask
  \/ ApiFlips
  \/ TransportSilent

\* every task step that can be taken is taken
SpecTimeout ==
  /\ InitTimeout
  /\ [][NextTimeout]_vars
  /\ \A e \in 1..MaxSeq : WF_vars(TaskStep(e))

\* C28: a task that holds an AI or alert permit gives it back.
C28_PermitsReleased ==
  \A e \in EventIds :
    /\ (tasks[e].ai \in {"running", "relay"}) ~> (tasks[e].ai \in {"ok", "failed"})
    /\ (tasks[e].alert = "running") ~> (tasks[e].alert \in {"ok", "failed"})

\* ------------------------------------------------------------------------
\* SpecOrder: two messages delivered one after the other, each handled by
\* its own coroutine; the client is built without sequential_updates, so the
\* handler of the first is not awaited before the second is dispatched
\* ------------------------------------------------------------------------
OrderEvents ==
  {[text |-> t, chan |-> <<"1">>, sender |-> s, from_id |-> FALSE, fails |-> {}] :
     t \in {<<"b">>, <<"c">>}, s \in {TriggerSender, OtherSender}}

Delivered == Started /\ \E e \in 1..MaxSeq, ev \in OrderEvents : HStart(e, ev)

Resume == \E e \in 1..MaxSeq : HandlerStep(e)

Awaiting(e) == h[e].pc \in {"get_chat", "get_sender"}

InitOrder == InitWith(ValidSource(BurstRules, 1))

NextOrder ==
  \/ StartupLoad
  \/ Delivered
  \/ Resume
  \/ RunTask

SpecOrder == InitOrder /\ [][NextOrder]_vars

\* C29: a message is not classified while a message delivered before it is
\* still waiting for its chat or its sender, that is, before the earlier one
\* has been classified.
C29_ArrivalOrder ==
  \A d, e \in 1..MaxSeq :
    (d < e /\ Classifying(e)) => ~Awaiting(d)

\* ------------------------------------------------------------------------
\* SpecSource: rule sources of every kind, rewritten and reloaded while
\* messages arrive
\* ------------------------------------------------------------------------
\* `{}`, and the documents `cfg or {}` turns into it (null, [], 0, "")
EmptyObject == NoCfg

SourceDocs ==
  {BurstRules,
   [BurstRules EXCEPT !.log_all_messages = FALSE],
   EmptyObject,
   SrcCfg(JNull, JStr(<<"b">>), JList(<<<<"(">>>>), JList(<<<<"1">>>>), TRUE, TRUE, <<>>),
   NullAiAnalysis(BurstRules)}

\* a document that json.load rejects, or one that base.update rejects (a
\* non-empty list, a number, a string), raises inside the try block
RuleSources(mtime) ==
  {ValidSource(d, mtime) : d \in SourceDocs}
    \cup {[MissingSource EXCEPT !.mtime = mtime], DirSource(mtime), MalformedSource(mtime)}

SourceEvents ==
  {[text |-> t, chan |-> c, sender |-> TriggerSender, from_id |-> FALSE, fails |-> {}] :
     t \in {<<"b">>, <<"c">>, <<>>}, c \in {<<"1">>, <<"2">>}}

Rewrite ==
  /\ Started
  /\ fs.mtime < MaxMtime
  /\ \E f \in RuleSources(fs.mtime + 1) : fs' = f
  /\ UNCHANGED <<globals, ld, Others>>

SourceMessage == Started /\ \E e \in 1..MaxSeq, ev \in SourceEvents : message_handler(e, ev)

InitSource == \E f \in RuleSources(1) : InitWith(f)

NextSource ==
  \/ StartupLoad
  \/ Rewrite
  \/ PollReload
  \/ SourceMessage

SpecSource == InitSource /\ [][NextSource]_vars

\* C30: whatever the rule source holds, every load returns with a full config
\* published, and every non-empty message of a channel the filter lets
\* through is classified, and persisted when log_all_messages is on.
C30_SourceNeverFatal ==
  /\ Started => CONFIG_CACHE.nonempty
  /\ \A e \in EventIds :
       (/\ h[e].pc = "done"
        /\ h[e].ev.text # <<>>
        /\ ~ChannelRejected(h[e].seen_channels, h[e].ev.chan))
       => /\ Classifying(e)
          /\ h[e].config.log_all_messages => h[e].saved

\* ------------------------------------------------------------------------
\* SpecNormalize: list-typed rule fields given in every shape the source
\* may use, loaded and then read by the handler
\* ------------------------------------------------------------------------
ListShapes ==
  {JNull, JList(<<>>), JList(<<<<"b">>>>), JList(<<<<" ", "b", " ">>, <<>>, <<"a", "\n">>>>),
   JStr(<<>>), JStr(<<"b">>), JStr(<<"a", ",", "b">>), JStr(<<" ", "a", "\n", ",", "b", " ">>),
   JScalar(<<"7">>), JScalar(<<"0">>)}

UserShapes ==
  {JNull, JList(<<<<"7">>>>), JList(<<<<" ", "7">>, <<>>>>),
   JStr(<<"7">>), JStr(<<"8", ",", "7">>), JStr(<<"8", "\n", " ", "7">>),
   JScalar(<<"7">>), JScalar(<<"0">>)}

ListFields == {"keywords", "alert_keywords", "alert_regex", "channels"}

\* a source document with value v in list field f and u as ai_trigger_users
ShapedCfg(f, v, u) ==
  [SrcCfg(IF f = "keywords" THEN v ELSE JNull,
          IF f = "alert_keywords" THEN v ELSE JNull,
          IF f = "alert_regex" THEN v ELSE JNull,
          IF f = "channels" THEN v ELSE JNull,
          TRUE, TRUE, <<>>) EXCEPT !.ai_trigger_users = u]

NormalizeEvents ==
  {[text |-> t, chan |-> <<"b">>, sender |-> TriggerSender, from_id |-> FALSE, fails |-> {}] :
     t \in {<<"b">>, <<"a", "b">>}}

NormalizeMessage ==
  Started /\ \E e \in 1..MaxEvents, ev \in NormalizeEvents : message_handler(e, ev)

InitNormalize ==
  \E f \in ListFields, v \in ListShapes, u \in UserShapes :
    InitWith(ValidSource(ShapedCfg(f, v, u), 1))

NextNormalize == StartupLoad \/ NormalizeMessage \/ RunTask

SpecNormalize == InitNormalize /\ [][NextNormalize]_vars

\* a list of trimmed, non-empty strings
Canonical(xs) == \A i \in 1..Len(xs) : xs[i] # <<>> /\ Strip(xs[i]) = xs[i]

\* C31: after a load each of the four list fields of the published config is
\* the normalized form of the source value, a list of trimmed non-empty
\* strings that normalizing again leaves unchanged; and the trigger-user
\* list a handler compares against is the normalized form of the source's
\* ai_trigger_users, the handler not raising on any shape.
C31_ListsNormalized ==
  /\ (Started /\ fs.kind = "valid") =>
       \A f \in ListFields :
         /\ CONFIG_CACHE[f] = normalize_list(fs.cfg[f])
         /\ Canonical(CONFIG_CACHE[f])
         /\ normalize_list(JList(CONFIG_CACHE[f])) = CONFIG_CACHE[f]
  /\ \A e \in EventIds :
       (h[e].pc = "done" /\ h[e].outcome \notin {"empty", "rejected"}) =>
         /\ h[e].outcome # "raised"
         /\ StripEach(TriggerUsers(h[e].config.ai_trigger_users))
              = normalize_list(h[e].config.ai_trigger_users)

\* ------------------------------------------------------------------------
\* SpecRegex: the classifier with alert patterns of either case, some of
\* which do not compile
\* ------------------------------------------------------------------------
PatternPool == {<<"a">>, <<"b">>, <<"(">>}

InitRegex ==
  \E rx \in SeqsUpTo(PatternPool, MaxList), akw \in {<<>>, <<<<"b", "b">>>>} :
    InitWith(ValidSource(SrcCfg(JList(<<<<"a">>>>), JList(akw), JList(rx), JNull,
                                TRUE, FALSE, <<>>), 1))

NextRegex == StartupLoad \/ ClassifyMessage

SpecRegex == InitRegex /\ [][NextRegex]_vars

\* the patterns of e's config that compile, in declared order
Compiled(e) == CompilePatterns(h[e].config.alert_regex)

\* index in Compiled(e) of the first pattern that matches the text of e
FirstPattern(e) ==
  LET hits == {i \in 1..Len(Compiled(e)) : Search(Compiled(e)[i], h[e].ev.text)}
  IN IF hits = {} THEN 0 ELSE CHOOSE i \in hits : \A j \in hits : i <= j

\* C32: when no alert keyword occurs in the text, the alert trigger is the
\* first compiled pattern, in declared order, that matches ignoring case,
\* and matchedKeywords is the matched monitoring keywords followed by the
\* one entry "regex:<pattern>"; when no pattern matches either there is no
\* trigger and no such entry.
C32_FirstPatternWins ==
  \A e \in EventIds : (Handled(e) /\ FirstAlert(e) = 0) =>
    IF FirstPattern(e) # 0
    THEN /\ h[e].alert_keyword = Compiled(e)[FirstPattern(e)]
         /\ h[e].matched_keywords =
              Append(MonitorMatches(e), RegexEntry(Compiled(e)[FirstPattern(e)]))
    ELSE /\ h[e].alert_keyword = None
         /\ h[e].matched_keywords = MonitorMatches(e)

\* two patterns match, the first of them in another case than the text,
\* and only the first is recorded
C32_Witness ==
  \E e \in EventIds :
    /\ Handled(e) /\ FirstAlert(e) = 0
    /\ h[e].config.alert_regex = <<<<"a">>, <<"b">>>>
    /\ h[e].ev.text = <<"A", "b">>
    /\ h[e].alert_keyword = <<"a">>
    /\ h[e].matched_keywords = <<<<"a">>, RegexEntry(<<"a">>)>>

\* ------------------------------------------------------------------------
\* SpecAdvisory: messages of one sender id, whose profile changes and whose
\* lookups fail or not, under an AI-trigger list that names a display name
\* ------------------------------------------------------------------------
\* every channel monitored, everything persisted, AI trigger for "A"
NamedTriggerRules ==
  SrcCfg(JList(<<<<"a">>>>), JList(<<<<"b">>>>), JList(<<>>), JNull,
         TRUE, TRUE, <<<<"A">>>>)

AdvisoryEvents ==
  {[text |-> <<"c">>, chan |-> <<"1">>, sender |-> s, from_id |-> FALSE, fails |-> f] :
     s \in {OtherSender, RenamedSender}, f \in {{}, SenderCalls}}

AdvisoryMessage ==
  /\ Started
  /\ \E e \in 1..MaxMsgs, ev \in AdvisoryEvents : message_handler(e, ev)

InitAdvisory == InitWith(ValidSource(NamedTriggerRules, 1))

NextAdvisory == StartupLoad \/ AdvisoryMessage \/ Tick

SpecAdvisory == InitAdvisory /\ [][NextAdvisory]_vars

\* _SENDER_DISPLAY_CACHE = {}
EmptyCache == [i \in SenderIds |-> NoEntry]

\* the AI-trigger flag of e had the handler found the cache empty
FlagOnEmptyCache(e) ==
  LET rs == ResolveSender(EmptyCache, h[e].at, h[e].ev, ChannelName)
  IN IsTriggerUser(h[e].config, rs.sender_entity, rs.sender)

\* C33: the AI-trigger flag of a classified message, and with it the AI
\* task created for it, is the one the handler computes from an empty
\* cache (matched keywords and alert trigger do not read the sender).
C33_CacheAdvisory ==
  \A e \in EventIds : Handled(e) =>
    /\ h[e].is_trigger_user = FlagOnEmptyCache(e)
    /\ (tasks[e].ai # "none") = (FlagOnEmptyCache(e) /\ h[e].log_id # 0)

\* ------------------------------------------------------------------------
\* SpecIdentity: the user id taken from USER_ID and from the config file's
\* user_id at the four places that attribute to a user
\* ------------------------------------------------------------------------
\* ObjectId(s) does not raise: s is made of hexadecimal digits
IsObjectId(s) == s # None /\ \A i \in 1..Len(s) : s[i] \in {"c", "e", "1"}

\* two valid ids and one that ObjectId rejects
UserIds == {None, <<"e", "1">>, <<"c", "1">>, <<"z">>}

WithUserId(cfg, u) == [cfg EXCEPT !.user_id = u]

\* main(): active_user_id = cfg.get("user_id") or USER_ID
ActiveUserId(uid, config) == IF config.user_id # None THEN config.user_id ELSE uid

\* save_log_async: ObjectId(USER_ID), else ObjectId(config user_id), else none
SaveLogUserId(uid, config) ==
  IF IsObjectId(uid) THEN uid
  ELSE IF IsObjectId(config.user_id) THEN config.user_id
  ELSE None

\* notify_new_message_async: USER_ID as it is, else str(config user_id)
NotifyUserId(uid, config) == IF uid # None THEN uid ELSE config.user_id

\* send_alert_async: as save_log_async
AlertUserId(uid, config) ==
  IF IsObjectId(uid) THEN uid
  ELSE IF IsObjectId(config.user_id) THEN config.user_id
  ELSE None

IdentOthers == <<fs, globals, ld, h, tasks, sems, logs, env, idcache, reloads,
                 boot, SHUTDOWN, main_pc, tg_silent, helper>>

SelectSession ==
  /\ Started /\ ident.session = <<>>
  /\ ident' = [ident EXCEPT
                 !.session = <<ActiveUserId(ident.USER_ID, CacheOrDefault(CONFIG_CACHE))>>]
  /\ UNCHANGED IdentOthers

AttributeLog ==
  /\ ident.session # <<>> /\ ident.log = <<>>
  /\ ident' = [ident EXCEPT
                 !.log = <<SaveLogUserId(ident.USER_ID, CacheOrDefault(CONFIG_CACHE))>>]
  /\ UNCHANGED IdentOthers

AttributeNotify ==
  /\ ident.log # <<>> /\ ident.notify = <<>>
  /\ ident' = [ident EXCEPT
                 !.notify = <<NotifyUserId(ident.USER_ID, CacheOrDefault(CONFIG_CACHE))>>]
  /\ UNCHANGED IdentOthers

AttributeAlert ==
  /\ ident.log # <<>> /\ ident.alert = <<>>
  /\ ident' = [ident EXCEPT
                 !.alert = <<AlertUserId(ident.USER_ID, CacheOrDefault(CONFIG_CACHE))>>]
  /\ UNCHANGED IdentOthers

InitIdentity ==
  \E uid \in UserIds, u \in UserIds, la \in BOOLEAN :
    InitProcess(ValidSource(WithUserId([BurstRules EXCEPT !.log_all_messages = la], u), 1),
                Booted, uid)

NextIdentity ==
  \/ StartupLoad
  \/ SelectSession
  \/ AttributeLog
  \/ AttributeNotify
  \/ AttributeAlert

SpecIdentity == InitIdentity /\ [][NextIdentity]_vars

\* C34: the session file, the log record, the notify payload and the alert
\* payload of one run all name the same user id, whatever USER_ID and the
\* config file's user_id are.
C34_OneUserId ==
  \A a, b \in {ident.session, ident.log, ident.notify, ident.alert} :
    (a # <<>> /\ b # <<>>) => a = b

\* ------------------------------------------------------------------------
\* SpecSwap: the poll reloader publishing a new rule source while a
\* handler, suspended at an await, holds the config dict of the old one
\* ------------------------------------------------------------------------
SwapEvents ==
  {[text |-> t, chan |-> <<"1">>, sender |-> TriggerSender, from_id |-> FALSE, fails |-> {}] :
     t \in {<<"b">>, <<"A">>}}

SwapReceive == Started /\ \E e \in 1..MaxEvents, ev \in SwapEvents : HStart(e, ev)

SwapReload == LoaderStep("poll")

NextSwap ==
  \/ StartupLoad
  \/ SourceChange
  \/ SwapReload
  \/ SwapReceive
  \/ Handle

SpecSwap == Init /\ [][NextSwap]_vars

\* C35: every entry of matchedKeywords that is not a "regex:" entry occurs,
\* lowercased, in the lowercased text; and the keyword reported for a match
\* at index i of the lowercased list is the keyword that entry was made from.
C35_ReportedKeywordInText ==
  \A e \in EventIds : Classifying(e) =>
    /\ \A k \in 1..Len(h[e].matched_keywords) :
         ~IsRegexEntry(h[e].matched_keywords[k]) => KwInText(h[e].matched_keywords[k], e)
    /\ \A i \in 1..Len(h[e].seen_kw) :
         (i <= Len(h[e].config.keywords) /\ Contains(Lower(h[e].ev.text), h[e].seen_kw[i]))
           => Lower(h[e].config.keywords[i]) = h[e].seen_kw[i]

\* ------------------------------------------------------------------------
\* SpecRace: the poll reloader and a push reload inside load_config_sync at
\* the same time, on two executor threads, while the source is rewritten
\* ------------------------------------------------------------------------
NextRace ==
  \/ StartupLoad
  \/ SourceChange
  \/ Reload

SpecRace == Init /\ [][NextRace]_vars

BothFinished == Started /\ \A l \in Threads : ld[l].pc = "idle"

\* C36: when neither thread is inside load_config_sync and the published
\* token is the token of the valid source in place, the published config is
\* that source's, and the compiled patterns, the lowercased keyword lists
\* and the channel set are the ones derived from it.
C36_ConsistentAfterRace ==
  (BothFinished /\ fs.kind = "valid" /\ CONFIG_MTIME = fs.mtime) =>
    /\ CONFIG_CACHE = NormalizedConfig(fs.cfg)
    /\ COMPILED_ALERT_REGEX = CompilePatterns(CONFIG_CACHE.alert_regex)
    /\ KEYWORDS_LC = LowerAll(CONFIG_CACHE.keywords)
    /\ ALERT_KEYWORDS_LC = LowerAll(CONFIG_CACHE.alert_keywords)
    /\ MONITORED_CHANNELS_SET = SeqToSet(CONFIG_CACHE.channels)

\* the `alerted` argument of notify_new_message_async: bool(matched_keywords)
NotifyAlerted(e) == h[e].saved_keywords # <<>>

\* C37: the alerted flag of the record persisted for an event, and of its
\* notify payload, is true exactly when an alert trigger was chosen for the
\* event, which is exactly when an alert-push task is created for it.
C37_AlertedMeansAlert ==
  \A e \in EventIds : \A d \in logs : (Returned(e) /\ d.id = e) =>
    /\ d.alerted = (h[e].alert_keyword # None)
    /\ NotifyAlerted(e) = (h[e].alert_keyword # None)
    /\ (h[e].alert_keyword # None) = (tasks[e].alert # "none")

\* ------------------------------------------------------------------------
\* SpecHelper: login_helper.py run with every command and argument count.
\* argv[k + 1] is sys.argv[k]; stdout is the sequence of JSON objects
\* printed, each reduced to its success field.
\* ------------------------------------------------------------------------
Commands == {"check", "send_code", "sign_in", "logout"}

\* int(s) does not raise ValueError
IsInt(s) == s \in {"12345"}

\* sys.argv of n entries: the script, the command, then arguments of which
\* every one is id_text
Argv(n, command, id_text) ==
  [k \in 1..n |-> IF k = 1 THEN "login_helper.py" ELSE IF k = 2 THEN command ELSE id_text]

Printed(out, success) == Append(out, [success |-> success])

\* the __main__ block up to asyncio.run(...), sys.exit(1) or an exception
\* that nothing catches; need is the bound of the length test, id_at the
\* index of the int() argument and last the highest index read
Dispatch(hp, need, id_at, last) ==
  IF Len(hp.argv) < need
  THEN [hp EXCEPT !.pc = "exited", !.stdout = Printed(@, FALSE), !.status = 1]
  ELSE IF ~IsInt(hp.argv[id_at + 1]) \/ Len(hp.argv) < last + 1
  THEN [hp EXCEPT !.pc = "exited", !.status = 1]
  ELSE [hp EXCEPT !.pc = "running"]

HelperOthers == <<fs, globals, ld, h, tasks, sems, logs, env, idcache, reloads,
                  boot, SHUTDOWN, main_pc, tg_silent, ident>>

HelperMain ==
  /\ helper.pc = "start"
  /\ helper' =
       IF Len(helper.argv) < 2
       THEN [helper EXCEPT !.pc = "exited", !.stdout = Printed(@, FALSE), !.status = 1]
       ELSE IF helper.argv[2] = "check" THEN Dispatch(helper, 5, 3, 4)
       ELSE IF helper.argv[2] = "send_code" THEN Dispatch(helper, 6, 4, 5)
       ELSE IF helper.argv[2] = "sign_in" THEN Dispatch(helper, 8, 7, 8)
       ELSE [helper EXCEPT !.pc = "exited", !.stdout = Printed(@, FALSE)]
  /\ UNCHANGED HelperOthers

\* check_login_status, send_code or sign_in from call to return: every path
\* through the function prints one object, in the try block or in except
HelperRun ==
  /\ helper.pc = "running"
  /\ \E success \in BOOLEAN :
       helper' = [helper EXCEPT !.pc = "exited", !.stdout = Printed(@, success)]
  /\ UNCHANGED HelperOthers

InitHelper ==
  \E n \in 1..MaxArgv, command \in Commands, id_text \in {"12345", "abc"} :
    InitAll(MissingSource, Booted, None,
            [NoHelper EXCEPT !.argv = Argv(n, command, id_text), !.pc = "start"])

NextHelper == HelperMain \/ HelperRun

SpecHelper == InitHelper /\ [][NextHelper]_vars

\* C38: a finished run of the login helper has written exactly one JSON
\* object, with a boolean success field, to standard output; too few
\* arguments and a non-numeric api_id are among the runs that do so.
C38_OneJsonObject ==
  helper.pc = "exited" =>
    /\ Len(helper.stdout) = 1
    /\ helper.stdout[1].success \in BOOLEAN

\* C39: the handler is registered, and the HTTP endpoints and the config
\* reloader are started, only once the client is known to be authorized, and
\* a message is handled only then; when authorization is given up (session
\* file missing, auth key unregistered, interactive prompt, client.start()
\* failed max_retries times) the process has disconnected, has left with
\* status 1, has registered and started nothing and has handled no message.
C39_AuthorizedBeforeServing ==
  /\ (boot.handler \/ boot.http \/ boot.reloader) => boot.is_authorized
  /\ (boot.http \/ boot.reloader) => boot.handler
  /\ \A e \in EventIds : h[e].pc # "idle" => boot.is_authorized /\ boot.handler
  /\ boot.denied # "none" =>
       /\ boot.phase = "exited"
       /\ boot.exit = "1"
       /\ ~boot.connected
       /\ ~boot.handler /\ ~boot.http /\ ~boot.reloader
       /\ \A e \in EventIds : h[e].pc = "idle"
  /\ (boot.phase = "exited" /\ ~boot.is_authorized /\ boot.loops["connect"].result = "success")
       => boot.denied # "none"

C39_Witness ==
  /\ boot.denied = "start_failed"
  /\ boot.retry_count = max_retries
  /\ boot.phase = "exited"
  /\ boot.exit = "1"
====

